---- MODULE Spec2Model ----
(***************************************************************************)
(* A model of the video resolution core of vik_downloader                   *)
(* (src/download_service.py): the Downloader's TTL cache around the         *)
(* per-platform adapters, and the adapters' normalisation of raw yt-dlp     *)
(* format lists.                                                            *)
(*                                                                          *)
(* Spec      the Downloader: concurrent get_video_info calls, clear_cache,  *)
(*           remove_from_cache, the clock, and callers mutating the values  *)
(*           they were handed.                                              *)
(* SpecFrame the Downloader's cache under calls for two URLs of supported   *)
(*           platforms, clear_cache and remove_from_cache.                  *)
(* SpecNorm  each adapter's get_video_info on raw payloads of up to         *)
(*           MaxFormats formats.                                            *)
(* SpecClassify  the YouTube adapter on one video format of each height     *)
(*           1..MaxHeight.                                                  *)
(* SpecCoerce  _safe_int and _safe_get_filesize on values of every type.    *)
(* SpecErr   the errors: an adapter on a backend that raised or returned    *)
(*           nothing, the Downloader on an unsupported URL, and the         *)
(*           handler process_video_url showing the error.                   *)
(* SpecResolve  whole Downloader.get_video_info calls on the urls of every  *)
(*           platform, the Instagram adapter included.                      *)
(* SpecKeyboard  get_download_keyboard and validate_download_data           *)
(*           (src/keyboards.py, src/handlers/user.py).                      *)
(* SpecDownload  concurrent process_download calls over the tables files    *)
(*           and downloads (src/handlers/user.py, src/database.py).         *)
(* SpecPlatform  Downloader._get_platform on URLs of any fragments.         *)
(* SpecInstagram  InstagramService.ensure_client under get_media_info and   *)
(*           download_media (src/session_manager.py).                       *)
(* SpecAntiSpam  AntiSpam.add_request and is_blocked in any order.          *)
(* SpecRateLimit  the rate limit as the handlers call it.                   *)
(* SpecGate  the subscription check and the rate limit in front of          *)
(*           process_video_url and process_download.                        *)
(* SpecAccept  validate_and_prepare_url and the Downloader's platform of    *)
(*           the url it accepted.                                           *)
(* SpecSend  send_large_video: the sends by path, the sleep, the buffered   *)
(*           send (src/handlers/user.py).                                   *)
(* SpecBroadcast  the admin's broadcast: start_broadcast, cancel_broadcast  *)
(*           and process_broadcast_content on updates handled as tasks      *)
(*           (src/handlers/admin.py).                                       *)
(***************************************************************************)
EXTENDS Integers, Sequences, FiniteSets, TLC

\* ------------------------------------------------------------------ bounds

\* Concurrent get_video_info calls (asyncio tasks).
NumTasks == 2
\* The clock runs 0..MaxTime, in minutes (in the specifications of the rate
\* limit it counts seconds, and runs 0..60 * MaxTime).
MaxTime == 5
\* Calls of the extraction backend over one behaviour.
MaxExtractions == 2

\* ------------------------------------------------------- program constants

\* Downloader._cache_ttl = timedelta(minutes=5), in minutes.
TTL == 5

Tasks == 1..NumTasks
Refs == 1..MaxExtractions

\* Python's None where a dict, a tuple or an exception may stand instead.
None == [none |-> TRUE]
\* Python's None where a platform name may stand instead.
NoPlatform == "None"

\* --------------------------------------------------------------------- URLs
\* A URL is the sequence of its fragments; `marker in url` of the code is a
\* fragment being one of them.

U_YOUTUBE == <<"https://", "youtube.com", "/watch?v=1">>
U_VK == <<"https://", "vk.com", "/video1_1">>
U_EXAMPLE == <<"https://", "example.com", "/video">>

Urls == {U_YOUTUBE, U_VK, U_EXAMPLE}
\* The url of a task that is in no call.
NoUrl == <<>>
\* The URLs the calls of Spec resolve.
SpecUrls == {U_YOUTUBE, U_EXAMPLE}

Contains(url, marker) == \E i \in 1..Len(url) : url[i] = marker

\* The domain markers _get_platform tests.
Markers == {"youtube.com", "youtu.be", "instagram.com", "tiktok.com", "vk.com", "rutube.ru"}

\* Downloader._get_platform: the first matching branch wins.
GetPlatformNoDefault(url) ==
    IF Contains(url, "youtube.com") \/ Contains(url, "youtu.be") THEN "youtube"
    ELSE IF Contains(url, "instagram.com") THEN "instagram"
    ELSE IF Contains(url, "tiktok.com") THEN "tiktok"
    ELSE IF Contains(url, "vk.com") THEN "vk"
    ELSE "rutube"

GetPlatformVkBeforeTikTok(url) ==
    IF Contains(url, "youtube.com") \/ Contains(url, "youtu.be") THEN "youtube"
    ELSE IF Contains(url, "instagram.com") THEN "instagram"
    ELSE IF Contains(url, "vk.com") THEN "vk"
    ELSE IF Contains(url, "tiktok.com") THEN "tiktok"
    ELSE IF Contains(url, "rutube.ru") THEN "rutube"
    ELSE NoPlatform

GetPlatform(url) ==
    IF Contains(url, "youtube.com") \/ Contains(url, "youtu.be") THEN "youtube"
    ELSE IF Contains(url, "instagram.com") THEN "instagram"
    ELSE IF Contains(url, "tiktok.com") THEN "tiktok"
    ELSE IF Contains(url, "vk.com") THEN "vk"
    ELSE IF Contains(url, "rutube.ru") THEN "rutube"
    ELSE NoPlatform

\* ------------------------------------------------------------------- state

VARIABLES
    clock,       \* datetime.now(), in minutes (in seconds for the rate limit)
    cache,       \* Downloader._cache: url -> None | [data, time]
    heap,        \* the formats list objects: ref -> its content
    nCalls,      \* calls of the extraction backend made so far
    pc,          \* task -> "idle" | "extracting" (suspended at line 559)
    url,         \* task -> the url of its suspended call
    now,         \* task -> the `now` its suspended call read on entry
    lookup,      \* task -> what the cache lookup of its suspended call found
    last,        \* the call that completed last: its task, its url, what its
                 \* lookup found ("hit", "expired", "miss"), and the dict it
                 \* returned (which its caller now holds) or the error it raised
    firstCall    \* url -> the last completed extracting call for it whose entry
                 \* no clear_cache or remove_from_cache has removed since:
                 \* [id: its result, at: the time it started]

cacheVars == <<clock, cache, heap, nCalls, pc, url, now, lookup, last, firstCall>>

\* One operation on its own (SpecNorm, SpecClassify, SpecCoerce).
VARIABLES
    raw,         \* its input: the info dict the extraction backend returned,
                 \* or the dict and the default of a coercion
    adapter,     \* the adapter or helper that was run on it ("none" before)
    out          \* what it returned or raised (None before)

normVars == <<raw, adapter, out>>

\* The application around the Downloader (src/handlers/user.py,
\* src/database.py, src/session_manager.py).
VARIABLES
    files,          \* the rows of the table `files`, in the order of their file_id
    downloads,      \* the rows of the table `downloads`
    dl,             \* task -> its process_download call: where it is suspended,
                    \* the button it was called for, the row get_file gave it
    client,         \* InstagramService.client
    session_file,   \* the file instagram_session.json
    user_requests,  \* AntiSpam.user_requests: user -> list of timestamps
    blocked_users,  \* AntiSpam.blocked_users: user -> end of the block, or None
    history         \* history variable: user -> the times, within the last
                    \* time_window seconds, at which add_request returned True,
                    \* and the time at which it last returned False

appVars == <<files, downloads, dl, client, session_file, user_requests, blocked_users, history>>

vars == <<cacheVars, normVars, appVars>>

\* A formats list that no adapter has built yet.
Unallocated == -1

\* The content a caller put into a dict or into a list it was handed.
Mutated == 0

\* The formats list object the next adapter result will hold.
NextRef == Cardinality({r \in Refs : heap[r] # Unallocated}) + 1

\* A result dict: its own top-level fields, and a reference to its formats
\* list. The k-th result has content k at both levels.
Info(k) == [top |-> k, formats |-> k]

\* dict.copy(): a new top-level dict holding the same formats list object.
Copy(d) == [top |-> d.top, formats |-> d.formats]

\* now - cache_time < self._cache_ttl
FreshInclusive(n, cacheTime) == n - cacheTime <= TTL

FreshReversed(n, cacheTime) == n - cacheTime > TTL

Fresh(n, cacheTime) == n - cacheTime < TTL

\* The errors get_video_info raises, by their cause: the url is of no
\* platform, the backend returned nothing, the backend raised. (Their texts
\* are those of the adapters below.)
ErrUnsupported == [err |-> "unsupported"]
ErrNoInfo == [err |-> "no_info"]
ErrBackend == [err |-> "backend"]

IsError(r) == r \in {ErrUnsupported, ErrNoInfo, ErrBackend}

\* The record of a completed call; `flip` tells one completion from the next.
Completion(t, u, found, r) ==
    [task |-> t, url |-> u, lookup |-> found, ret |-> r, flip |-> ~last.flip]

InitCache ==
    /\ clock = 0
    /\ cache = [u \in Urls |-> None]
    /\ heap = [r \in Refs |-> Unallocated]
    /\ nCalls = 0
    /\ pc = [t \in Tasks |-> "idle"]
    /\ url = [t \in Tasks |-> NoUrl]
    /\ now = [t \in Tasks |-> 0]
    /\ lookup = [t \in Tasks |-> "none"]
    /\ last = [task |-> 0, url |-> NoUrl, lookup |-> "none", ret |-> None,
               flip |-> FALSE]
    /\ firstCall = [u \in Urls |-> None]

\* No adapter is run on its own in Spec.
NormIdle ==
    /\ raw = None
    /\ adapter = "none"
    /\ out = None

\* The users of the bot.
Users == {"u1"}

\* A process_download call that has not begun or has ended.
NoDownload == [pc |-> "idle"]

\* Nothing granted, nothing refused: the times of the grants, and the time of
\* the last refusal as a sequence of at most one element.
NoHistory == [granted |-> <<>>, rejected_at |-> <<>>]

\* The application after its start: empty tables, no Instagram client and no
\* session file, no request of any user.
AppIdle ==
    /\ files = <<>>
    /\ downloads = {}
    /\ dl = [t \in Tasks |-> NoDownload]
    /\ client = "None"
    /\ session_file = "absent"
    /\ user_requests = [u \in Users |-> <<>>]
    /\ blocked_users = [u \in Users |-> None]
    /\ history = [u \in Users |-> NoHistory]

Init == InitCache /\ NormIdle /\ AppIdle

\* ----------------------------------------------------------------- actions

\* The cache after the lookup of lines 539-544: an expired entry is deleted.
CacheAfterLookupKeep(u, n) == cache

CacheAfterLookup(u, n) ==
    IF cache[u] # None /\ ~Fresh(n, cache[u].time)
    THEN [cache EXCEPT ![u] = None]
    ELSE cache

\* What a lookup that was no hit found: an entry it deleted, or none.
LookupMissAlways(u) == "miss"

LookupMiss(u) == IF cache[u] # None THEN "expired" ELSE "miss"

\* get_video_info, from its entry to its first suspension point (the await of
\* the adapter) or to its return: lines 536-559.
Start(t, u) ==
    /\ pc[t] = "idle"
    /\ cache' = CacheAfterLookup(u, clock)
    /\ IF cache[u] # None /\ Fresh(clock, cache[u].time)
       THEN \* line 542: return cache_data.copy()
            /\ last' = Completion(t, u, "hit", Copy(cache[u].data))
            /\ UNCHANGED <<nCalls, pc, url, now, lookup>>
       ELSE IF GetPlatform(u) = NoPlatform
       THEN \* line 549: raise VideoDownloadError("Неподдерживаемая платформа")
            /\ last' = Completion(t, u, LookupMiss(u), ErrUnsupported)
            /\ UNCHANGED <<nCalls, pc, url, now, lookup>>
       ELSE \* line 559: await downloader.get_video_info(url, ydl)
            /\ nCalls < MaxExtractions
            /\ nCalls' = nCalls + 1
            /\ pc' = [pc EXCEPT ![t] = "extracting"]
            /\ url' = [url EXCEPT ![t] = u]
            /\ now' = [now EXCEPT ![t] = clock]
            /\ lookup' = [lookup EXCEPT ![t] = LookupMiss(u)]
            /\ UNCHANGED last
    /\ UNCHANGED <<clock, heap, firstCall>>
    /\ UNCHANGED <<normVars, appVars>>

\* The locals of a call that has returned or raised.
Leave(t) ==
    /\ pc' = [pc EXCEPT ![t] = "idle"]
    /\ url' = [url EXCEPT ![t] = NoUrl]
    /\ now' = [now EXCEPT ![t] = 0]
    /\ lookup' = [lookup EXCEPT ![t] = "none"]

\* The adapter returned its result dict: lines 561-564 store a copy of it and
\* return another.
FinishOkFirstWins(t) ==
    /\ pc[t] = "extracting"
    /\ heap' = [heap EXCEPT ![NextRef] = NextRef]
    /\ cache' = IF cache[url[t]] # None THEN cache
                ELSE [cache EXCEPT ![url[t]] =
                         [data |-> Copy(Info(NextRef)), time |-> now[t]]]
    /\ last' = Completion(t, url[t], lookup[t], Copy(Info(NextRef)))
    /\ firstCall' = [firstCall EXCEPT ![url[t]] =
                        [id |-> NextRef, at |-> now[t]]]
    /\ Leave(t)
    /\ UNCHANGED <<clock, nCalls>>
    /\ UNCHANGED <<normVars, appVars>>

FinishOk(t) ==
    /\ pc[t] = "extracting"
    /\ heap' = [heap EXCEPT ![NextRef] = NextRef]
    /\ cache' = [cache EXCEPT ![url[t]] =
                    [data |-> Copy(Info(NextRef)), time |-> now[t]]]
    /\ last' = Completion(t, url[t], lookup[t], Copy(Info(NextRef)))
    /\ firstCall' = [firstCall EXCEPT ![url[t]] =
                        [id |-> NextRef, at |-> now[t]]]
    /\ Leave(t)
    /\ UNCHANGED <<clock, nCalls>>
    /\ UNCHANGED <<normVars, appVars>>

\* The backend returned nothing: the adapter raises (lines 89-90, 365-366),
\* its own `except Exception` wraps that error (lines 169-171, 409-411), and
\* line 568 re-raises.
FinishEmpty(t) ==
    /\ pc[t] = "extracting"
    /\ last' = Completion(t, url[t], lookup[t], ErrNoInfo)
    /\ Leave(t)
    /\ UNCHANGED <<clock, cache, heap, nCalls, firstCall>>
    /\ UNCHANGED <<normVars, appVars>>

\* The backend raised: the adapter maps it to a VideoDownloadError
\* (lines 155-171), and line 568 re-raises.
FinishRaise(t) ==
    /\ pc[t] = "extracting"
    /\ last' = Completion(t, url[t], lookup[t], ErrBackend)
    /\ Leave(t)
    /\ UNCHANGED <<clock, cache, heap, nCalls, firstCall>>
    /\ UNCHANGED <<normVars, appVars>>

\* The caller of the last call changes a top-level field of the dict it was
\* handed.
MutateTop ==
    /\ last.ret # None /\ ~IsError(last.ret)
    /\ last.ret.top # Mutated
    /\ last' = [last EXCEPT !.ret.top = Mutated]
    /\ UNCHANGED <<clock, cache, heap, nCalls, pc, url, now, lookup, firstCall>>
    /\ UNCHANGED <<normVars, appVars>>

\* A caller changes the formats list of a dict it was handed (appends to it, or
\* assigns a field of one of its rendition dicts).
MutateFormats(r) ==
    /\ heap[r] = r
    /\ heap' = [heap EXCEPT ![r] = Mutated]
    /\ UNCHANGED <<clock, cache, nCalls, pc, url, now, lookup, last, firstCall>>
    /\ UNCHANGED <<normVars, appVars>>

\* Downloader.clear_cache
ClearCache ==
    /\ cache' = [u \in Urls |-> None]
    /\ firstCall' = [u \in Urls |-> None]
    /\ UNCHANGED <<clock, heap, nCalls, pc, url, now, lookup, last>>
    /\ UNCHANGED <<normVars, appVars>>

\* Downloader.remove_from_cache
RemoveFromCacheAll(u) ==
    /\ cache' = [v \in Urls |-> None]
    /\ firstCall' = [v \in Urls |-> None]
    /\ UNCHANGED <<clock, heap, nCalls, pc, url, now, lookup, last>>
    /\ UNCHANGED <<normVars, appVars>>

RemoveFromCache(u) ==
    /\ cache' = IF cache[u] # None THEN [cache EXCEPT ![u] = None] ELSE cache
    /\ firstCall' = [firstCall EXCEPT ![u] = None]
    /\ UNCHANGED <<clock, heap, nCalls, pc, url, now, lookup, last>>
    /\ UNCHANGED <<normVars, appVars>>

\* Time passes.
Tick ==
    /\ clock < MaxTime
    /\ clock' = clock + 1
    /\ UNCHANGED <<cache, heap, nCalls, pc, url, now, lookup, last, firstCall>>
    /\ UNCHANGED <<normVars, appVars>>

Next ==
    \/ \E t \in Tasks, u \in SpecUrls : Start(t, u)
    \/ \E t \in Tasks : FinishOk(t)
    \/ \E t \in Tasks : FinishEmpty(t)
    \/ \E t \in Tasks : FinishRaise(t)
    \/ MutateTop
    \/ \E r \in Refs : MutateFormats(r)
    \/ ClearCache
    \/ \E u \in SpecUrls : RemoveFromCache(u)
    \/ Tick

Spec == Init /\ [][Next]_vars

\* The cache table under calls for two URLs that are both cached. What callers
\* do to the values they hold reaches the heap, never the table, and is left
\* out here.
CacheUrls == {U_YOUTUBE, U_VK}

NextFrame ==
    \/ \E t \in Tasks, u \in CacheUrls : Start(t, u)
    \/ \E t \in Tasks : FinishOk(t)
    \/ \E t \in Tasks : FinishEmpty(t)
    \/ \E t \in Tasks : FinishRaise(t)
    \/ ClearCache
    \/ \E u \in CacheUrls : RemoveFromCache(u)
    \/ Tick

SpecFrame == Init /\ [][NextFrame]_vars

\* ------------------------------------------------------ the Downloader cache

\* A step in which a call of task t returns or raises.
Completes(t) == last'.flip # last.flip /\ last'.task = t

\* A step in which task t enters get_video_info (and runs to its return or to
\* its suspension at the adapter).
Enters(t) == pc[t] = "idle" /\ (pc'[t] = "extracting" \/ Completes(t))

\* The url of the call task t enters.
Entered(t) == IF pc'[t] = "extracting" THEN url'[t] ELSE last'.url

\* A step in which task t's call is answered from the cache (line 542).
AnsweredFromCache(t) == Completes(t) /\ last'.lookup = "hit"

\* C1: a call that is answered from the cache returns the entry the cache held
\* for its url, and the age of that entry (the time of the lookup minus the
\* stored insertion time) is less than the TTL.
C1_NoStaleEntryReturned ==
    [][\A t \in Tasks :
          AnsweredFromCache(t) =>
              LET e == cache[last'.url]
              IN  /\ e # None
                  /\ last'.ret.formats = e.data.formats
                  /\ clock - e.time < TTL]_vars

\* A call was answered from an entry of the oldest age that is still served.
C1_Witness ==
    /\ last.lookup = "hit"
    /\ cache[last.url] # None
    /\ clock - cache[last.url].time = TTL - 1

\* C2: a call for a url that starts less than the TTL after the start of the
\* last completed extracting call for that url (with no clear_cache or
\* remove_from_cache of it in between) returns at once with that call's result
\* and makes no extraction call; and the extraction backend is only ever called
\* by a step in which a call enters, once, so no call invokes it twice.
C2_SecondCallHitsCache ==
    [][/\ \A t \in Tasks :
             (/\ Enters(t)
              /\ firstCall[Entered(t)] # None
              /\ clock - firstCall[Entered(t)].at < TTL)
             => /\ Completes(t)
                /\ last'.ret = Info(firstCall[Entered(t)].id)
                /\ nCalls' = nCalls
                /\ heap' = heap
       /\ nCalls' # nCalls =>
             /\ nCalls' = nCalls + 1
             /\ Cardinality({t \in Tasks : Enters(t)}) = 1
       /\ \A t \in Tasks :
             pc[t] = "extracting" => pc'[t] = "extracting" \/ Completes(t)
      ]_vars

\* The second of two calls was answered from the cache, after one extraction,
\* with the result of the first.
C2_Witness ==
    /\ last.lookup = "hit"
    /\ nCalls = 1
    /\ firstCall[last.url] # None
    /\ last.ret = Info(firstCall[last.url].id)
    /\ clock > firstCall[last.url].at

\* C3: a call for a url whose cached entry has reached the TTL deletes the
\* entry and calls the extraction backend; and when an extraction fails the
\* cache is left as it is, so the deleted entry stays deleted.
C3_ExpiredEntryEvicted ==
    [][/\ \A t \in Tasks :
             (/\ Enters(t)
              /\ cache[Entered(t)] # None
              /\ clock - cache[Entered(t)].time >= TTL)
             => /\ cache'[Entered(t)] = None
                /\ pc'[t] = "extracting"
                /\ nCalls' = nCalls + 1
       /\ \A t \in Tasks :
             (pc[t] = "extracting" /\ Completes(t) /\ IsError(last'.ret))
             => cache' = cache
      ]_vars

\* A call found an expired entry, its extraction failed, and the entry is gone.
C3_Witness ==
    /\ last.lookup = "expired"
    /\ last.ret \in {ErrNoInfo, ErrBackend}
    /\ cache[last.url] = None

\* C4: whatever callers did to the values they were handed, a call answered
\* from the cache returns the content the extraction produced, at the top
\* level and in the formats list.
C4_CallerMutationSafe ==
    [][\A t \in Tasks :
          AnsweredFromCache(t) =>
              /\ last'.ret.top = last'.ret.formats
              /\ heap'[last'.ret.formats] = last'.ret.formats]_vars

\* C5: a call for a url that holds none of the domain markers raises the
\* unsupported-platform error without suspending, calls the extraction backend
\* zero times and leaves the cache unchanged.
C5_UnsupportedPlatform ==
    [][\A t \in Tasks :
          (Enters(t) /\ \A m \in Markers : ~Contains(Entered(t), m))
          => /\ Completes(t)
             /\ last'.ret = ErrUnsupported
             /\ nCalls' = nCalls
             /\ cache' = cache]_vars

\* An unsupported url was refused while the cache held an entry.
C5_Witness ==
    /\ last.url = U_EXAMPLE
    /\ last.ret = ErrUnsupported
    /\ cache[U_YOUTUBE] # None

\* ------------------------------------------------------------ Python values
\* The value of a numeric field of a raw dict, as the backend left it: absent
\* key, None, an int, a float (in thousandths; or inf, nan), a str (its
\* characters), or anything else.

Missing == [t |-> "missing"]
NoneV == [t |-> "none"]
IntV(n) == [t |-> "int", v |-> n]
FloatV(m) == [t |-> "float", k |-> "fin", m |-> m]
FloatInf == [t |-> "float", k |-> "inf", m |-> 0]
FloatNan == [t |-> "float", k |-> "nan", m |-> 0]
StrV(chars) == [t |-> "str", s |-> chars]
OtherV == [t |-> "other"]

\* dict.get(key, default) on a numeric field.
Get(v, default) == IF v = Missing THEN default ELSE v

\* A str field (url, ext, vcodec, acodec) is its text, or one of these two.
KeyMissing == "<missing>"
PyNone == "<None>"

\* dict.get(key, default) on a str field.
GetS(v, default) == IF v = KeyMissing THEN default ELSE v

\* `not d.get(key)` on a str field.
Falsy(v) == v \in {KeyMissing, PyNone, ""}

Digits == <<"0", "1", "2", "3", "4", "5", "6", "7", "8", "9">>

IsDigit(c) == \E i \in 1..10 : Digits[i] = c

DigitVal(c) == (CHOOSE i \in 1..10 : Digits[i] = c) - 1

RECURSIVE DigitsVal(_)
DigitsVal(cs) ==
    IF cs = <<>> THEN 0
    ELSE 10 * DigitsVal(SubSeq(cs, 1, Len(cs) - 1)) + DigitVal(cs[Len(cs)])

\* The thousandths of the fraction digits cs (the digits after the third are
\* dropped).
FracVal(cs) ==
    DigitsVal(SubSeq(cs \o <<"0", "0", "0">>, 1, 3))

\* float(s), for the texts [-]digits[.digits], inf and nan (with a sign or
\* without); any other text is a ValueError ("bad").
ParseUnsigned(cs) ==
    IF cs = <<"i", "n", "f">> THEN [k |-> "inf", m |-> 0]
    ELSE IF cs = <<"n", "a", "n">> THEN [k |-> "nan", m |-> 0]
    ELSE LET dots == {i \in 1..Len(cs) : cs[i] = "."}
             dot == IF dots = {} THEN Len(cs) + 1 ELSE CHOOSE i \in dots : TRUE
             whole == SubSeq(cs, 1, dot - 1)
             frac == SubSeq(cs, dot + 1, Len(cs))
         IN  IF /\ Cardinality(dots) <= 1
                /\ Len(whole) + Len(frac) > 0
                /\ \A i \in 1..Len(whole) : IsDigit(whole[i])
                /\ \A i \in 1..Len(frac) : IsDigit(frac[i])
             THEN [k |-> "fin", m |-> 1000 * DigitsVal(whole) + FracVal(frac)]
             ELSE [k |-> "bad", m |-> 0]

ParseFloat(cs) ==
    IF cs # <<>> /\ cs[1] = "-"
    THEN LET u == ParseUnsigned(Tail(cs)) IN [k |-> u.k, m |-> 0 - u.m]
    ELSE ParseUnsigned(cs)

\* int(x) of a finite float: truncation towards zero.
Trunc(m) == IF m >= 0 THEN m \div 1000 ELSE 0 - ((0 - m) \div 1000)

\* The float a value is turned into before int() (None for the values that
\* take another branch of _safe_int).
AsFloat(value) ==
    IF value.t = "str" THEN ParseFloat(value.s)
    ELSE IF value.t = "float" THEN [k |-> value.k, m |-> value.m]
    ELSE [k |-> "none", m |-> 0]

\* BaseDownloader._safe_int raises: int() of an infinite float is an
\* OverflowError, which `except (ValueError, TypeError)` does not catch.
SafeIntRaises(value) == AsFloat(value).k = "inf"

\* BaseDownloader._safe_int, where it returns.
SafeInt(value, default) ==
    IF value.t = "none" THEN default
    ELSE IF value.t = "int" THEN value.v
    ELSE IF value.t \in {"str", "float"}
    THEN IF AsFloat(value).k = "fin" THEN Trunc(AsFloat(value).m) ELSE default
    ELSE default

\* BaseDownloader._safe_get_filesize: the value it hands to _safe_int.
FilesizeValue(f) ==
    IF Get(f.filesize, NoneV) = NoneV
    THEN Get(f.filesize_approx, NoneV)
    ELSE f.filesize

\* BaseDownloader._safe_get_filesize
SafeGetFilesize(f) == SafeInt(FilesizeValue(f), 0)

\* BaseDownloader._normalize_duration
NormalizeDuration(d) == SafeInt(d, 0)

\* str(n) of an int.
Str(n) == [decimal |-> n]

\* f'url{height}' and the values of quality_mapping.
UrlN(n) == [prefix |-> "url", n |-> n]

\* f'{height}p', and the labels 'HD'.
LabelP(n) == [n |-> n, suffix |-> "p"]
LabelHD == [text |-> "HD"]

\* ----------------------------------------------------------------- adapters

\* An item of info['formats'] that is None.
NoneItem == [none |-> TRUE]

\* An info dict that is empty.
EmptyDict == [empty |-> TRUE]

\* The backend raised instead of returning: the class of the exception
\* ("DownloadError" for yt_dlp.utils.DownloadError, "Exception" for any other)
\* and str(e), a sequence of fragments as a URL is.
BackendRaise(class, msg) == [raised |-> class, msg |-> msg]

BackendRaised(info) == "raised" \in DOMAIN info

\* The classes of VideoDownloadError: download_service.py line 10, and the one
\* handlers/user.py defines at line 43 under the name it imported at line 25.
ServiceError == "download_service.VideoDownloadError"
HandlerError == "handlers.user.VideoDownloadError"

\* raise VideoDownloadError(text), leaving download_service.py
Raised(text) == [ok |-> FALSE, class |-> ServiceError, err |-> text]

\* The texts of the VideoDownloadErrors (in English here). A text is a sequence
\* of fragments; the first is the literal of its raise statement.
UnsupportedText == <<"Unsupported platform">>
NoInfoText == <<"Failed to get video information">>
AttributeErrorText == <<"'NoneType' object has no attribute 'get'">>
OverflowErrorText == <<"cannot convert float infinity to integer">>

\* f"Неожиданная ошибка при загрузке с {platform}: {str(e)}" of the adapters'
\* `except Exception as e`.
Unexpected(platform, text) == <<"Unexpected error while loading from", platform>> \o text

\* str.lower() of a fragment, and of a message.
Lower(f) == IF f = "Private" THEN "private" ELSE f

LowerMsg(msg) == [i \in 1..Len(msg) |-> Lower(msg[i])]

\* `pattern in error_msg`, error_msg = str(e).lower()
Has(msg, pattern) == Contains(LowerMsg(msg), pattern)

\* YouTubeDownloader.get_video_info, lines 155-168: the text for a DownloadError.
YouTubeErrorPrivateFirst(msg) ==
    IF Has(msg, "private") THEN <<"This is a private video">>
    ELSE IF Has(msg, "copyright") THEN <<"Video unavailable: copyright violation">>
    ELSE IF Has(msg, "unavailable") \/ Has(msg, "not available")
    THEN <<"Video is unavailable or was deleted">>
    ELSE IF Has(msg, "sign in") THEN <<"Video requires authorization">>
    ELSE IF Has(msg, "unable to extract")
    THEN <<"Failed to get the video. It may be unavailable">>
    ELSE <<"Failed to load the video from YouTube">>

YouTubeError(msg) ==
    IF Has(msg, "copyright") THEN <<"Video unavailable: copyright violation">>
    ELSE IF Has(msg, "private") THEN <<"This is a private video">>
    ELSE IF Has(msg, "unavailable") \/ Has(msg, "not available")
    THEN <<"Video is unavailable or was deleted">>
    ELSE IF Has(msg, "sign in") THEN <<"Video requires authorization">>
    ELSE IF Has(msg, "unable to extract")
    THEN <<"Failed to get the video. It may be unavailable">>
    ELSE <<"Failed to load the video from YouTube">>

\* TikTokDownloader.get_video_info, lines 332-344
TikTokError(msg) ==
    IF Has(msg, "not found") \/ Has(msg, "404")
    THEN <<"TikTok video not found or deleted">>
    ELSE IF Has(msg, "private") THEN <<"This is a private TikTok video">>
    ELSE IF Has(msg, "blocked") THEN <<"Video is blocked in your region">>
    ELSE IF Has(msg, "unable to extract")
    THEN <<"Failed to get the TikTok video. It may be unavailable">>
    ELSE <<"Failed to load the video from TikTok">>

\* VKDownloader.get_video_info, lines 397-408
VKError(msg) ==
    IF Has(msg, "deleted") THEN <<"This video was deleted from VK">>
    ELSE IF Has(msg, "private") THEN <<"This is a private VK video">>
    ELSE IF Has(msg, "not available") \/ Has(msg, "unable to extract")
    THEN <<"VK video is unavailable">>
    ELSE IF Has(msg, "404") THEN <<"Video not found">>
    ELSE <<"Failed to load the video from VK">>

\* RutubeDownloader.get_video_info, lines 489-498
RutubeError(msg) ==
    IF Has(msg, "not found") \/ Has(msg, "404")
    THEN <<"Rutube video not found or deleted">>
    ELSE IF Has(msg, "private") THEN <<"This is a private Rutube video">>
    ELSE IF Has(msg, "unavailable") \/ Has(msg, "unable to extract")
    THEN <<"Rutube video is unavailable or requires authorization">>
    ELSE <<"Failed to load the video from Rutube">>

\* The two except clauses of an adapter on an exception of the backend:
\* a DownloadError gets the text of the adapter's table, any other exception
\* is wrapped.
RaisedForBackend(platform, tableText, info) ==
    IF info.raised = "DownloadError"
    THEN Raised(tableText)
    ELSE Raised(Unexpected(platform, info.msg))

\* `if not info: raise VideoDownloadError(...)` stands inside the try block:
\* the adapter's own `except Exception` catches that error and wraps it.
RaisedNoInfo(platform) == Raised(Unexpected(platform, NoInfoText))

\* An exception of the adapter's body, wrapped likewise: the AttributeError of
\* f.get on an item that is None, or the OverflowError of _safe_int.
RaisedUnexpected(platform, text) == Raised(Unexpected(platform, text))

\* `not info`
NoInfo(info) == info \in {None, EmptyDict}

\* str(e) of the first exception of a YouTube or TikTok body: the duration is
\* coerced first, then a comprehension calls f.get on every item, and the
\* sizes, heights and widths are coerced after it.
BodyErrorText(info) ==
    IF SafeIntRaises(Get(info.duration, IntV(0))) THEN OverflowErrorText
    ELSE IF \E i \in 1..Len(info.formats) : info.formats[i] = NoneItem
    THEN AttributeErrorText
    ELSE OverflowErrorText

\* The exceptions of _safe_int on the size, width and height of a dict.
ItemRaises(f) ==
    \/ SafeIntRaises(Get(f.height, NoneV))
    \/ SafeIntRaises(FilesizeValue(f))
    \/ SafeIntRaises(Get(f.width, NoneV))

\* sorted(formats, key=lambda x: self._safe_int(x['height'], 0), reverse=True):
\* a stable sort, equal heights keep their order.
InsertDesc(sorted, x) ==
    LET before == {i \in 1..Len(sorted) : sorted[i].height >= x.height}
        n == Cardinality(before)
    IN  SubSeq(sorted, 1, n) \o <<x>> \o SubSeq(sorted, n + 1, Len(sorted))

KeepOrder(fs) == fs

RECURSIVE SortedByHeightDesc(_)
SortedByHeightDesc(fs) ==
    IF fs = <<>> THEN <<>>
    ELSE InsertDesc(SortedByHeightDesc(SubSeq(fs, 1, Len(fs) - 1)), fs[Len(fs)])

\* max(seq, key=size): the first element of the largest size.
MaxBySize(fs) ==
    fs[CHOOSE i \in 1..Len(fs) :
          /\ \A j \in 1..Len(fs) : SafeGetFilesize(fs[j]) <= SafeGetFilesize(fs[i])
          /\ \A j \in 1..(i - 1) : SafeGetFilesize(fs[j]) < SafeGetFilesize(fs[i])]

\* YouTubeDownloader.get_video_info, lines 96-98: the audio-only formats.
IsAudioOnly(f) ==
    /\ GetS(f.acodec, "none") # "none"
    /\ (GetS(f.vcodec, "none") = "none" \/ Falsy(f.vcodec))

AudioFormats(fs) == SelectSeq(fs, IsAudioOnly)

\* line 99
BestAudioFirst(fs) ==
    IF AudioFormats(fs) = <<>> THEN None ELSE AudioFormats(fs)[1]

BestAudio(fs) ==
    IF AudioFormats(fs) = <<>> THEN None ELSE MaxBySize(AudioFormats(fs))

\* lines 104-109: the formats the video loop does not skip.
IsVideoCandidate(f) ==
    /\ GetS(f.vcodec, "none") # "none"
    /\ SafeInt(Get(f.height, IntV(0)), 0) > 0

\* lines 102-113: the dict video_formats after the first n formats, as the
\* sequence of its (height, format) items in insertion order.
RECURSIVE VideoFormats(_, _)
VideoFormats(fs, n) ==
    IF n = 0 THEN <<>>
    ELSE LET d == VideoFormats(fs, n - 1)
             f == fs[n]
             h == SafeInt(Get(f.height, IntV(0)), 0)
             at == {i \in 1..Len(d) : d[i].height = h}
         IN  IF ~IsVideoCandidate(f) THEN d
             ELSE IF at = {} THEN Append(d, [height |-> h, fmt |-> f])
             ELSE LET i == CHOOSE i \in at : TRUE
                  IN  IF SafeGetFilesize(f) > SafeGetFilesize(d[i].fmt)
                      THEN [d EXCEPT ![i].fmt = f]
                      ELSE d

\* The keys of quality_mapping, in the order the dict literal gives them.
QualityKeys == <<1080, 720, 480, 360, 240, 144>>

Abs(x) == IF x < 0 THEN 0 - x ELSE x

\* line 126: min(quality_mapping.keys(), key=lambda x: abs(x - height)), the
\* first key of the least distance.
ClosestQualityLast(height) ==
    QualityKeys[CHOOSE i \in 1..Len(QualityKeys) :
        /\ \A j \in 1..Len(QualityKeys) :
              Abs(QualityKeys[i] - height) <= Abs(QualityKeys[j] - height)
        /\ \A j \in (i + 1)..Len(QualityKeys) :
              Abs(QualityKeys[i] - height) < Abs(QualityKeys[j] - height)]

ClosestQuality(height) ==
    QualityKeys[CHOOSE i \in 1..Len(QualityKeys) :
        /\ \A j \in 1..Len(QualityKeys) :
              Abs(QualityKeys[i] - height) <= Abs(QualityKeys[j] - height)
        /\ \A j \in 1..(i - 1) :
              Abs(QualityKeys[i] - height) < Abs(QualityKeys[j] - height)]

\* lines 125-144: the rendition of one item of video_formats.
YouTubeRendition(item, bestAudio, duration) ==
    [url |-> GetS(item.fmt.url, ""),
     format_id |-> UrlN(ClosestQuality(item.height)),
     ext |-> GetS(item.fmt.ext, "mp4"),
     filesize |-> SafeGetFilesize(item.fmt)
                  + (IF bestAudio # None THEN SafeGetFilesize(bestAudio) ELSE 0),
     format |-> LabelP(item.height),
     duration |-> duration,
     width |-> SafeInt(Get(item.fmt.width, NoneV), 0),
     height |-> item.height,
     vcodec |-> GetS(item.fmt.vcodec, ""),
     acodec |-> GetS(item.fmt.acodec, "")]

\* The exceptions of lines 93-144: f.get on an item that is None, and
\* _safe_int on the size of an audio format, on the height of a format with a
\* video codec, and on the size and the width of one of positive height.
YouTubeRaises(info) ==
    \/ SafeIntRaises(Get(info.duration, IntV(0)))
    \/ \E i \in 1..Len(info.formats) : info.formats[i] = NoneItem
    \/ \E i \in 1..Len(info.formats) :
          LET f == info.formats[i]
          IN  \/ IsAudioOnly(f) /\ SafeIntRaises(FilesizeValue(f))
              \/ /\ GetS(f.vcodec, "none") # "none"
                 /\ \/ SafeIntRaises(Get(f.height, IntV(0)))
                    \/ /\ SafeInt(Get(f.height, IntV(0)), 0) > 0
                       /\ \/ SafeIntRaises(FilesizeValue(f))
                          \/ SafeIntRaises(Get(f.width, NoneV))

\* YouTubeDownloader.get_video_info, after the backend returned info.
YouTubeGetVideoInfo(info) ==
    IF BackendRaised(info) THEN RaisedForBackend("YouTube", YouTubeError(info.msg), info)
    ELSE IF NoInfo(info) THEN RaisedNoInfo("YouTube")
    ELSE IF YouTubeRaises(info)
    THEN RaisedUnexpected("YouTube", BodyErrorText(info))
    ELSE LET duration == NormalizeDuration(Get(info.duration, IntV(0)))
             bestAudio == BestAudio(info.formats)
             d == VideoFormats(info.formats, Len(info.formats))
             formats == [i \in 1..Len(d) |-> YouTubeRendition(d[i], bestAudio, duration)]
         IN  [ok |-> TRUE,
              duration |-> Str(duration),
              formats |-> SortedByHeightDesc(formats)]

\* TikTokDownloader.get_video_info, lines 302-322: the one rendition, of the
\* best video format or of info itself.
TikTokRendition(src, duration) ==
    [url |-> GetS(src.url, ""),
     format_id |-> UrlN(720),
     ext |-> GetS(src.ext, "mp4"),
     filesize |-> SafeGetFilesize(src),
     format |-> LabelHD,
     duration |-> duration,
     width |-> SafeInt(Get(src.width, NoneV), 0),
     height |-> SafeInt(Get(src.height, NoneV), 720)]

\* line 299: f.get('vcodec') != 'none'
TikTokIsVideo(f) == GetS(f.vcodec, PyNone) # "none"

TikTokGetVideoInfoListOnly(info) ==
    IF BackendRaised(info) THEN RaisedForBackend("TikTok", TikTokError(info.msg), info)
    ELSE IF NoInfo(info) THEN RaisedNoInfo("TikTok")
    ELSE IF \/ SafeIntRaises(Get(info.duration, IntV(0)))
            \/ \E i \in 1..Len(info.formats) : info.formats[i] = NoneItem
    THEN RaisedUnexpected("TikTok", BodyErrorText(info))
    ELSE LET duration == NormalizeDuration(Get(info.duration, IntV(0)))
             videos == SelectSeq(info.formats, TikTokIsVideo)
             src == IF videos # <<>> THEN MaxBySize(videos) ELSE info
         IN  IF \/ \E i \in 1..Len(videos) : SafeIntRaises(FilesizeValue(videos[i]))
                \/ ItemRaises(src)
             THEN RaisedUnexpected("TikTok", OverflowErrorText)
             ELSE [ok |-> TRUE,
                   duration |-> Str(duration),
                   formats |-> IF videos # <<>> THEN <<TikTokRendition(src, duration)>> ELSE <<>>]

\* TikTokDownloader.get_video_info, after the backend returned info.
TikTokGetVideoInfo(info) ==
    IF BackendRaised(info) THEN RaisedForBackend("TikTok", TikTokError(info.msg), info)
    ELSE IF NoInfo(info) THEN RaisedNoInfo("TikTok")
    ELSE IF \/ SafeIntRaises(Get(info.duration, IntV(0)))
            \/ \E i \in 1..Len(info.formats) : info.formats[i] = NoneItem
    THEN RaisedUnexpected("TikTok", BodyErrorText(info))
    ELSE LET duration == NormalizeDuration(Get(info.duration, IntV(0)))
             videos == SelectSeq(info.formats, TikTokIsVideo)
             src == IF videos # <<>> THEN MaxBySize(videos) ELSE info
         IN  IF \/ \E i \in 1..Len(videos) : SafeIntRaises(FilesizeValue(videos[i]))
                \/ ItemRaises(src)
             THEN RaisedUnexpected("TikTok", OverflowErrorText)
             ELSE [ok |-> TRUE,
                   duration |-> Str(duration),
                   formats |-> <<TikTokRendition(src, duration)>>]

\* VKDownloader.get_video_info line 372, RutubeDownloader line 449:
\* `if not f or not f.get('url')`.
SkippedForUrl(f) == f = NoneItem \/ Falsy(f.url)

\* lines 377-386 and 456-465: the rendition of a format of positive height.
HeightRendition(f, duration) ==
    [url |-> f.url,
     format_id |-> UrlN(SafeInt(Get(f.height, IntV(0)), 0)),
     ext |-> GetS(f.ext, "mp4"),
     filesize |-> SafeGetFilesize(f),
     format |-> LabelP(SafeInt(Get(f.height, IntV(0)), 0)),
     duration |-> duration,
     width |-> SafeInt(Get(f.width, NoneV), 0),
     height |-> SafeInt(Get(f.height, IntV(0)), 0)]

\* lines 371-386 and 448-465: the formats with a url and a positive height, in
\* the order of the raw list.
Emitted(f) == ~SkippedForUrl(f) /\ SafeInt(Get(f.height, IntV(0)), 0) > 0

HeightRenditions(fs, duration) ==
    LET kept == SelectSeq(fs, Emitted)
    IN  [i \in 1..Len(kept) |-> HeightRendition(kept[i], duration)]

\* The exceptions of _safe_int in the loop of lines 371-386 and 448-465.
HeightLoopRaises(fs) ==
    \E i \in 1..Len(fs) :
        /\ ~SkippedForUrl(fs[i])
        /\ \/ SafeIntRaises(Get(fs[i].height, IntV(0)))
           \/ /\ SafeInt(Get(fs[i].height, IntV(0)), 0) > 0
              /\ (SafeIntRaises(FilesizeValue(fs[i])) \/ SafeIntRaises(Get(fs[i].width, NoneV)))

\* VKDownloader.get_video_info, after the backend returned info.
VKGetVideoInfo(info) ==
    IF BackendRaised(info) THEN RaisedForBackend("VK", VKError(info.msg), info)
    ELSE IF NoInfo(info) THEN RaisedNoInfo("VK")
    ELSE IF SafeIntRaises(Get(info.duration, IntV(0))) \/ HeightLoopRaises(info.formats)
    THEN RaisedUnexpected("VK", OverflowErrorText)
    ELSE LET duration == NormalizeDuration(Get(info.duration, IntV(0)))
         IN  [ok |-> TRUE,
              duration |-> Str(duration),
              formats |-> SortedByHeightDesc(HeightRenditions(info.formats, duration))]

\* RutubeDownloader.get_video_info, lines 468-478: the fallback rendition.
RutubeFallback(info, duration) ==
    [url |-> info.url,
     format_id |-> UrlN(720),
     ext |-> GetS(info.ext, "mp4"),
     filesize |-> SafeGetFilesize(info),
     format |-> LabelHD,
     duration |-> duration,
     width |-> SafeInt(Get(info.width, NoneV), 0),
     height |-> 720]

\* RutubeDownloader.get_video_info, after the backend returned info.
RutubeGetVideoInfo(info) ==
    IF BackendRaised(info) THEN RaisedForBackend("Rutube", RutubeError(info.msg), info)
    ELSE IF NoInfo(info) THEN RaisedNoInfo("Rutube")
    ELSE IF SafeIntRaises(Get(info.duration, IntV(0))) \/ HeightLoopRaises(info.formats)
    THEN RaisedUnexpected("Rutube", OverflowErrorText)
    ELSE LET duration == NormalizeDuration(Get(info.duration, IntV(0)))
             formats == HeightRenditions(info.formats, duration)
         IN  IF formats = <<>> /\ info.url # KeyMissing
             THEN IF SafeIntRaises(FilesizeValue(info)) \/ SafeIntRaises(Get(info.width, NoneV))
                  THEN RaisedUnexpected("Rutube", OverflowErrorText)
                  ELSE [ok |-> TRUE,
                        duration |-> Str(duration),
                        formats |-> <<RutubeFallback(info, duration)>>]
             ELSE [ok |-> TRUE,
                   duration |-> Str(duration),
                   formats |-> SortedByHeightDesc(formats)]

\* ------------------------------------------------- the adapters on their own

\* Formats in a raw list.
MaxFormats == 3
\* The heights SpecClassify classifies: 1..MaxHeight.
MaxHeight == 1200

\* A raw format of the backend.
Format(u, h, size, vc, ac) ==
    [url |-> u, height |-> h, width |-> Missing, filesize |-> size,
     filesize_approx |-> Missing, ext |-> KeyMissing, vcodec |-> vc, acodec |-> ac]

\* A video-only format and an audio-only format.
Video(u, h, size) == Format(u, IntV(h), IntV(size), "avc1", "none")
Audio(u, size) == Format(u, Missing, IntV(size), "none", "mp4a")

\* The formats of the raw lists of SpecNorm: heights 700 and 720 are nearest
\* to the same tier, 720 comes twice with two sizes, one video format has no
\* height and one has no url, and one item is None.
NormFormats ==
    {Video("v700", 700, 100), Video("v720s", 720, 100), Video("v720", 720, 200),
     Video("v1080", 1080, 200), Format("v0", Missing, IntV(100), "avc1", "none"),
     Video(KeyMissing, 720, 100), Audio("a100", 100), Audio("a200", 200),
     NoneItem}

\* An info dict with these formats and this top-level url.
InfoOf(fs, u) ==
    [formats |-> fs, url |-> u, height |-> Missing, width |-> Missing,
     filesize |-> Missing, filesize_approx |-> Missing, ext |-> KeyMissing,
     duration |-> IntV(60)]

\* The payload of the end-to-end scenario: videos (720, 50_000_000) and
\* (1080, 90_000_000), one audio track of 3_000_000.
ScenarioInfo ==
    InfoOf(<<Video("v720", 720, 50000000), Video("v1080", 1080, 90000000),
             Audio("a", 3000000)>>, KeyMissing)

RawLists == UNION {[1..n -> NormFormats] : n \in 0..MaxFormats}

InitNorm ==
    /\ InitCache
    /\ AppIdle
    /\ raw \in {InfoOf(fs, u) : fs \in RawLists, u \in {KeyMissing, "https://cdn/top"}}
               \cup {ScenarioInfo, None}
    /\ adapter = "none"
    /\ out = None

\* One adapter is run on the payload.
RunYouTube ==
    /\ adapter = "none"
    /\ adapter' = "youtube"
    /\ out' = YouTubeGetVideoInfo(raw)
    /\ UNCHANGED <<raw, cacheVars, appVars>>

RunTikTok ==
    /\ adapter = "none"
    /\ adapter' = "tiktok"
    /\ out' = TikTokGetVideoInfo(raw)
    /\ UNCHANGED <<raw, cacheVars, appVars>>

RunVK ==
    /\ adapter = "none"
    /\ adapter' = "vk"
    /\ out' = VKGetVideoInfo(raw)
    /\ UNCHANGED <<raw, cacheVars, appVars>>

RunRutube ==
    /\ adapter = "none"
    /\ adapter' = "rutube"
    /\ out' = RutubeGetVideoInfo(raw)
    /\ UNCHANGED <<raw, cacheVars, appVars>>

NextNorm == RunYouTube \/ RunTikTok \/ RunVK \/ RunRutube

SpecNorm == InitNorm /\ [][NextNorm]_vars

\* The classifier of the YouTube adapter on one video format of each height.
InitClassify ==
    /\ InitCache
    /\ AppIdle
    /\ raw \in {InfoOf(<<Video("v", h, 100)>>, KeyMissing) : h \in 1..MaxHeight}
    /\ adapter = "none"
    /\ out = None

NextClassify == RunYouTube

SpecClassify == InitClassify /\ [][NextClassify]_vars

\* ------------------------------------------------ claims about the adapters

\* An adapter has returned a VideoInfo for the payload.
Normalized == adapter # "none" /\ raw # None /\ out # None /\ out.ok

\* The raw formats of positive height.
PositiveHeight(f) == f # NoneItem /\ SafeInt(Get(f.height, IntV(0)), 0) > 0

\* C6: for every raw format list and every adapter, no two renditions of the
\* resulting VideoInfo have the same format_id.
C6_UniqueFormatIds ==
    Normalized =>
        \A i, j \in 1..Len(out.formats) :
            out.formats[i].format_id = out.formats[j].format_id => i = j

\* The tiers, as a set, and the tiers nearest to a height.
Tiers == {144, 240, 360, 480, 720, 1080}

NearestTiers(h) == {t \in Tiers : \A s \in Tiers : Abs(t - h) <= Abs(s - h)}

\* C7: when two video-bearing raw candidates map to the same tier, the
\* output holds for that tier only one rendition, that of a candidate of the
\* largest byte size among those of the tier.
C7_LargestSizePerTier ==
    (Normalized /\ adapter = "youtube") =>
        \A i, j \in 1..Len(raw.formats) :
            LET a == raw.formats[i]
                b == raw.formats[j]
            IN  (/\ IsVideoCandidate(a) /\ IsVideoCandidate(b)
                 /\ NearestTiers(a.height.v) = NearestTiers(b.height.v)
                 /\ SafeGetFilesize(a) < SafeGetFilesize(b))
                => \A k \in 1..Len(out.formats) :
                       out.formats[k].url # GetS(a.url, "")

\* The height SpecClassify classifies, and the format_id it was given.
ClassifiedHeight == raw.formats[1].height.v

Classified == adapter = "youtube" /\ out # None /\ out.ok /\ Len(out.formats) = 1

LargestAudioSize(fs) ==
    LET sizes == {SafeGetFilesize(fs[i]) : i \in {k \in 1..Len(fs) : IsAudioOnly(fs[k])}}
    IN  IF sizes = {} THEN 0 ELSE CHOOSE x \in sizes : \A y \in sizes : y <= x

\* A rendition as the scenario states it.
Brief(r) == <<r.format_id, r.filesize>>

\* C9: on YouTube every emitted rendition's byte size is its video
\* candidate's size plus the largest size among the audio-only candidates;
\* the scenario payload gives url1080 with 93_000_000, then url720 with
\* 53_000_000.
C9_SizeIsVideoPlusBestAudio ==
    (Normalized /\ adapter = "youtube") =>
        /\ \A k \in 1..Len(out.formats) :
              \E i \in 1..Len(raw.formats) :
                  /\ IsVideoCandidate(raw.formats[i])
                  /\ raw.formats[i].height.v = out.formats[k].height
                  /\ GetS(raw.formats[i].url, "") = out.formats[k].url
                  /\ out.formats[k].filesize
                       = SafeGetFilesize(raw.formats[i]) + LargestAudioSize(raw.formats)
        /\ raw = ScenarioInfo =>
              /\ Len(out.formats) = 2
              /\ Brief(out.formats[1]) = <<UrlN(1080), 93000000>>
              /\ Brief(out.formats[2]) = <<UrlN(720), 53000000>>

\* The YouTube adapter has normalized the scenario payload.
C9_Witness ==
    /\ Normalized /\ adapter = "youtube"
    /\ raw = ScenarioInfo
    /\ Len(out.formats) = 2
    /\ out.formats[1].filesize = 93000000

\* C10: for a payload with no candidate of positive height and a top-level
\* url, every adapter yields exactly one rendition, at the default tier
\* url720.
C10_FallbackOnEveryAdapter ==
    (/\ adapter # "none" /\ raw # None
     /\ \A i \in 1..Len(raw.formats) :
            raw.formats[i] # NoneItem /\ ~PositiveHeight(raw.formats[i])
     /\ raw.url # KeyMissing)
    => /\ out # None /\ out.ok
       /\ Len(out.formats) = 1
       /\ out.formats[1].format_id = UrlN(720)

\* C11: the renditions of every VideoInfo the YouTube, VK and Rutube adapters
\* return are ordered by non-increasing height.
C11_SortedByHeight ==
    (Normalized /\ adapter \in {"youtube", "vk", "rutube"}) =>
        \A i, j \in 1..Len(out.formats) :
            i < j => out.formats[i].height >= out.formats[j].height

\* The VK adapter was handed a lower format before a higher one and returned
\* the higher one first.
C11_Witness ==
    /\ Normalized /\ adapter = "vk"
    /\ Len(raw.formats) = 2 /\ Len(out.formats) = 2
    /\ raw.formats[1] = Video("v720", 720, 200)
    /\ raw.formats[2] = Video("v1080", 1080, 200)
    /\ out.formats[1].height = 1080
    /\ out.formats[2].height = 720

\* ------------------------------------------------- the coercions on their own

\* Characters in a str value.
MaxLen == 2

CoerceChars == {"1", "9", ".", "-", "a"}

\* The texts of up to MaxLen characters, and the texts of infinity and NaN.
CoerceTexts ==
    UNION {[1..n -> CoerceChars] : n \in 0..MaxLen}
    \cup {<<"i", "n", "f">>, <<"-", "i", "n", "f">>, <<"n", "a", "n">>}

\* What a size field of a raw dict may hold.
CoerceValues ==
    {Missing, NoneV, OtherV, FloatInf, FloatNan}
    \cup {IntV(n) : n \in {-2, 0, 5}}
    \cup {FloatV(m) : m \in {-2500, 0, 1900}}
    \cup {StrV(cs) : cs \in CoerceTexts}

\* A dict with the two size fields, and the default handed to _safe_int.
InitCoerce ==
    /\ InitCache
    /\ AppIdle
    /\ raw \in [filesize : CoerceValues, filesize_approx : CoerceValues,
                default : {0, 7}]
    /\ adapter = "none"
    /\ out = None

\* What a helper returned, and the exception that left it.
Returned(n) == [ok |-> TRUE, value |-> n]
RaisedOverflow == [ok |-> FALSE, err |-> "OverflowError"]

\* self._safe_int(d.get('filesize'), default)
RunSafeInt ==
    /\ adapter = "none"
    /\ adapter' = "safe_int"
    /\ out' = IF SafeIntRaises(Get(raw.filesize, NoneV))
              THEN RaisedOverflow
              ELSE Returned(SafeInt(Get(raw.filesize, NoneV), raw.default))
    /\ UNCHANGED <<raw, cacheVars, appVars>>

\* self._safe_get_filesize(d): its except clause is that of _safe_int.
RunSafeGetFilesize ==
    /\ adapter = "none"
    /\ adapter' = "safe_get_filesize"
    /\ out' = IF SafeIntRaises(FilesizeValue(raw))
              THEN RaisedOverflow
              ELSE Returned(SafeGetFilesize(raw))
    /\ UNCHANGED <<raw, cacheVars, appVars>>

NextCoerce == RunSafeInt \/ RunSafeGetFilesize

SpecCoerce == InitCoerce /\ [][NextCoerce]_vars

\* C12: _safe_int returns an integer and never raises, for every input: None
\* and values of other types give the default, an int is returned as it is,
\* and so for strings and floats, those that denote infinity or NaN included.
C12_SafeIntTotal ==
    adapter = "safe_int" =>
        /\ out.ok
        /\ out.value \in Int
        /\ raw.filesize \in {Missing, NoneV, OtherV} => out.value = raw.default
        /\ raw.filesize.t = "int" => out.value = raw.filesize.v

\* A size is usable when it is a number, or the text of one, and not zero.
Usable(v) ==
    /\ \/ v.t = "int"
       \/ v.t \in {"str", "float"} /\ AsFloat(v).k = "fin"
    /\ SafeInt(v, 0) # 0

\* C13: where _safe_get_filesize returns, it returns the exact size when that
\* is usable, otherwise the approximate size when that is usable, otherwise 0:
\* an exact size that is unparsable or zero does not hide the approximate one.
C13_ExactThenApproxThenZero ==
    (adapter = "safe_get_filesize" /\ out.ok) =>
        out.value = IF Usable(raw.filesize) THEN SafeInt(raw.filesize, 0)
            ELSE IF Usable(raw.filesize_approx) THEN SafeInt(raw.filesize_approx, 0)
            ELSE 0

\* ------------------------------------------------ more on the Downloader cache

\* C14: storing a result for a url replaces the entry of that url, with the
\* stored value and the time the call read on entry, and leaves every other
\* entry as it was; remove_from_cache(url) leaves no entry for url and every
\* other entry as it was; clear_cache leaves no entry at all.
C14_CacheFrame ==
    [][/\ \A t \in Tasks :
             FinishOk(t) =>
                 /\ cache'[url[t]] = [data |-> last'.ret, time |-> now[t]]
                 /\ \A v \in Urls \ {url[t]} : cache'[v] = cache[v]
       /\ \A u \in Urls :
             RemoveFromCache(u) =>
                 /\ cache'[u] = None
                 /\ \A v \in Urls \ {u} : cache'[v] = cache[v]
       /\ ClearCache => \A u \in Urls : cache'[u] = None
      ]_vars

\* Two results were stored, the first for one url and the second for the
\* other; the second entry was removed and the first is still there.
C14_Witness ==
    /\ cache[U_VK] # None
    /\ cache[U_VK].data = Info(1)
    /\ heap[2] # Unallocated
    /\ cache[U_YOUTUBE] = None
    /\ \A t \in Tasks : pc[t] = "idle"

\* C15: a call for a url of a supported platform that finds no entry calls the
\* extraction backend itself, whether or not another call for the same url is
\* suspended in its extraction (no single-flight); and an entry only ever
\* changes to the result of the call that completes in that very step, so
\* after two such calls the entry is that of the one that stored last.
C15_NoSingleFlightLastWriteWins ==
    [][/\ \A t \in Tasks :
             (/\ Enters(t)
              /\ GetPlatform(Entered(t)) # NoPlatform
              /\ cache[Entered(t)] = None)
             => /\ pc'[t] = "extracting"
                /\ nCalls' = nCalls + 1
       /\ \A t \in Tasks :
             (pc[t] = "extracting" /\ Completes(t) /\ ~IsError(last'.ret))
             => cache'[last'.url] = [data |-> last'.ret, time |-> now[t]]
       /\ \A u \in Urls :
             (cache'[u] # cache[u] /\ cache'[u] # None)
             => \E t \in Tasks :
                    /\ pc[t] = "extracting" /\ Completes(t)
                    /\ last'.url = u
                    /\ cache'[u].data = last'.ret
      ]_vars

\* Two calls for one url were in their extractions at once: the first has
\* stored its result, and the other, which found no entry, is still suspended.
C15_Witness ==
    \E t \in Tasks :
        /\ pc[t] = "extracting"
        /\ lookup[t] = "miss"
        /\ nCalls = 2
        /\ cache[url[t]] # None
        /\ cache[url[t]].data = Info(1)
        /\ last.url = url[t]
        /\ last.task # t

MaxMsgLen == 2

MsgFragments ==
    {"copyright", "private", "Private", "unavailable", "not available",
     "sign in", "unable to extract", "deleted", "404", "not found", "blocked",
     "video"}

BackendMsgs == UNION {[1..n -> MsgFragments] : n \in 0..MaxMsgLen}

\* What the backend does when it gives no info dict.
BackendFailures ==
    {None, EmptyDict}
    \cup {BackendRaise(c, m) : c \in {"DownloadError", "Exception"}, m \in BackendMsgs}

InitErr ==
    /\ InitCache
    /\ AppIdle
    /\ raw \in BackendFailures
    /\ adapter = "none"
    /\ out = None

\* Downloader.get_video_info on a url of no platform, lines 547-549 and
\* 568-569: the backend is not called.
RunUnsupported ==
    /\ adapter = "none"
    /\ adapter' = "downloader"
    /\ out' = Raised(UnsupportedText)
    /\ UNCHANGED <<raw, cacheVars, appVars>>

\* handlers/user.py line 551
GenericShown == <<"An error occurred while processing the video">>

\* process_video_url, lines 543-556: `except VideoDownloadError` names the
\* class of line 43, and shows str(e); `except Exception` shows its own text.
ShownMessage(e) == IF e.class = HandlerError THEN e.err ELSE GenericShown

\* process_video_url from its await of downloader.get_video_info, which
\* re-raises what the adapter raised (download_service.py lines 568-569), to
\* the text it shows.
ProcessVideoUrl ==
    /\ adapter \in {"youtube", "tiktok", "vk", "rutube", "downloader"}
    /\ out # None /\ ~out.ok
    /\ adapter' = "process_video_url"
    /\ out' = [ok |-> FALSE, class |-> out.class, err |-> out.err,
               shown |-> ShownMessage(out)]
    /\ UNCHANGED <<raw, cacheVars, appVars>>

NextErr ==
    \/ RunYouTube \/ RunTikTok \/ RunVK \/ RunRutube
    \/ RunUnsupported
    \/ ProcessVideoUrl

SpecErr == InitErr /\ [][NextErr]_vars

\* The tables of the error mappings: the patterns of each branch, in the
\* order of the branches, with the text of the branch; and the text of the
\* last else.
YouTubeTable ==
    << <<{"copyright"}, <<"Video unavailable: copyright violation">> >>,
       <<{"private"}, <<"This is a private video">> >>,
       <<{"unavailable", "not available"}, <<"Video is unavailable or was deleted">> >>,
       <<{"sign in"}, <<"Video requires authorization">> >>,
       <<{"unable to extract"}, <<"Failed to get the video. It may be unavailable">> >> >>

VKTable ==
    << <<{"deleted"}, <<"This video was deleted from VK">> >>,
       <<{"private"}, <<"This is a private VK video">> >>,
       <<{"not available", "unable to extract"}, <<"VK video is unavailable">> >>,
       <<{"404"}, <<"Video not found">> >> >>

\* The text of the first row of the table one of whose patterns is in the
\* lower-cased message, or the generic text.
FirstMatch(table, generic, msg) ==
    LET hits == {i \in 1..Len(table) :
                    \E k \in 1..Len(msg) : Lower(msg[k]) \in table[i][1]}
    IN  IF hits = {} THEN generic
        ELSE table[CHOOSE i \in hits : \A j \in hits : i <= j][2]

Adapt(a, info) ==
    CASE a = "youtube" -> YouTubeGetVideoInfo(info)
      [] a = "tiktok" -> TikTokGetVideoInfo(info)
      [] a = "vk" -> VKGetVideoInfo(info)
      [] a = "rutube" -> RutubeGetVideoInfo(info)

\* C18: when the backend returns empty or absent metadata the call fails with
\* the extraction-failed error, whose text begins with a literal that no error
\* for a raising backend begins with.
C18_NoInfoIsItsOwnKind ==
    (adapter \in {"youtube", "tiktok", "vk", "rutube"} /\ NoInfo(raw)) =>
        /\ ~out.ok
        /\ out.err[1] = NoInfoText[1]
        /\ \A r \in BackendFailures :
              BackendRaised(r) => Adapt(adapter, r).err[1] # out.err[1]

\* C19: every error resolve raises reaches the user of process_video_url as
\* its own text, so that two errors of different kinds are never shown alike.
C19_EachErrorShownAsItself ==
    adapter = "process_video_url" =>
        /\ out.shown = out.err
        /\ out.err # UnsupportedText =>
               out.shown # ShownMessage(Raised(UnsupportedText))

\* ------------------------------------------------------- malformed raw items

\* A raw item with a url and a positive height.
WellFormed(f) ==
    /\ f # NoneItem
    /\ ~Falsy(f.url)
    /\ SafeInt(Get(f.height, IntV(0)), 0) > 0

\* C20: an item that is absent, or has no url, or no height, is skipped by
\* every adapter and never makes the resolution fail: the adapter returns a
\* VideoInfo, on YouTube, VK and Rutube every rendition is that of an item
\* with a url and a height, and on VK and Rutube every such item has its
\* rendition.
C20_MalformedItemsSkipped ==
    (adapter \in {"youtube", "tiktok", "vk", "rutube"} /\ raw # None) =>
        /\ out.ok
        /\ adapter # "tiktok" =>
              \A k \in 1..Len(out.formats) :
                  \/ \E i \in 1..Len(raw.formats) :
                        /\ WellFormed(raw.formats[i])
                        /\ raw.formats[i].url = out.formats[k].url
                  \/ \A i \in 1..Len(raw.formats) : ~WellFormed(raw.formats[i])
        /\ adapter \in {"vk", "rutube"} =>
              \A i \in 1..Len(raw.formats) :
                  WellFormed(raw.formats[i]) =>
                      \E k \in 1..Len(out.formats) :
                          out.formats[k].url = raw.formats[i].url

\* ------------------------------------------------------ the Instagram adapter

U_INSTAGRAM_REEL == <<"https://", "instagram.com", "/reel/", "Cx1">>
U_INSTAGRAM_STORY == <<"https://", "instagram.com", "/stories/", "user", "/31">>
U_INSTAGRAM_PROFILE == <<"https://", "instagram.com", "/user">>
U_TIKTOK == <<"https://", "tiktok.com", "/@u/video/1">>
U_RUTUBE == <<"https://", "rutube.ru", "/video/1">>

\* A media object of the Instagram client: its media_type (1 photo, 2 video),
\* its video_url and thumbnail_url (PyNone when None), its width and height
\* (0 when None), and its video_duration.
Media(type, vurl, thumb, w, h, dur) ==
    [media_type |-> type, video_url |-> vurl, thumbnail_url |-> thumb,
     width |-> w, height |-> h, video_duration |-> dur]

\* `a or b` on two numbers.
Or(a, b) == IF a # 0 THEN a ELSE b

\* InstagramService.extract_media_info: one rendition, url720, of size 0.
ExtractMediaInfo(m) ==
    LET is_video == ~Falsy(m.video_url)
        duration == IF is_video THEN m.video_duration ELSE 0
    IN  [ok |-> TRUE,
         duration |-> Str(duration),
         formats |-> << [url |-> IF is_video THEN m.video_url ELSE m.thumbnail_url,
                         format_id |-> UrlN(720),
                         ext |-> IF is_video THEN "mp4" ELSE "jpg",
                         filesize |-> 0,
                         format |-> LabelHD,
                         duration |-> duration,
                         width |-> Or(m.width, 1280),
                         height |-> Or(m.height, 720)] >>]

\* An exception that is no VideoDownloadError, with its str(e).
RaisedException(text) == [ok |-> FALSE, class |-> "Exception", err |-> text]

\* InstagramService.get_media_info on what the client gave for the url: an
\* exception (of the login, or of a request) is re-raised; a story is
\* extracted whatever its type; a post is extracted when it is a video, and
\* the function ends without a return otherwise.
GetMediaInfo(u, backend) ==
    IF BackendRaised(backend) THEN RaisedException(backend.msg)
    ELSE IF Contains(u, "/stories/") THEN ExtractMediaInfo(backend)
    ELSE IF backend.media_type = 2 THEN ExtractMediaInfo(backend)
    ELSE None

\* The texts of InstagramDownloader.get_video_info.
InstagramInfoError(text) == <<"Error while getting information">> \o text
InstagramLoadError(text) == <<"Error while loading from Instagram">> \o text
UnsupportedContentText == <<"Unsupported content type">>

\* line 200: the url is one of a story, a reel or a post.
IsContentUrl(u) ==
    /\ Contains(u, "instagram.com")
    /\ \/ Contains(u, "/stories/") \/ Contains(u, "/reel/")
       \/ Contains(u, "/reels/") \/ Contains(u, "/p/")

\* `if x:` on what an adapter or get_media_info returned.
Truthy(x) == x # None /\ x # EmptyDict

\* InstagramDownloader.get_video_info, lines 198-211: every raise of the body
\* is wrapped by the outer `except Exception`.
InstagramGetVideoInfoAnyInfo(u, backend) ==
    IF IsContentUrl(u)
    THEN LET info == GetMediaInfo(u, backend)
         IN  IF info # None /\ ~info.ok
             THEN Raised(InstagramLoadError(InstagramInfoError(info.err)))
             ELSE info
    ELSE Raised(InstagramLoadError(UnsupportedContentText))

InstagramGetVideoInfo(u, backend) ==
    IF IsContentUrl(u)
    THEN LET info == GetMediaInfo(u, backend)
         IN  IF info # None /\ ~info.ok
             THEN Raised(InstagramLoadError(InstagramInfoError(info.err)))
             ELSE IF Truthy(info) THEN info
             ELSE Raised(InstagramLoadError(UnsupportedContentText))
    ELSE Raised(InstagramLoadError(UnsupportedContentText))

\* ----------------------------------------------------- one resolve, end to end

\* self._downloaders[platform].get_video_info(url, ydl), lines 552-559.
AdapterResult(u, backend) ==
    IF GetPlatform(u) = "instagram" THEN InstagramGetVideoInfo(u, backend)
    ELSE Adapt(GetPlatform(u), backend)

\* `return None` of line 566.
ReturnedNone == [ok |-> TRUE, none |-> TRUE]

\* lines 561-569: a result that is truthy is returned, the exception of the
\* adapter is re-raised, and anything else ends in the `return None`.
ReturnOrNone(result) ==
    IF result # None /\ ~result.ok THEN result
    ELSE IF Truthy(result) THEN result
    ELSE ReturnedNone

\* Downloader.get_video_info after a lookup that was no hit, lines 546-571:
\* what it returns or raises.
AfterMiss(u, backend) ==
    IF GetPlatform(u) = NoPlatform THEN Raised(UnsupportedText)
    ELSE ReturnOrNone(AdapterResult(u, backend))

\* The URLs SpecResolve resolves, and what the backend of each platform may do.
ResolveUrls ==
    {U_YOUTUBE, U_VK, U_TIKTOK, U_RUTUBE, U_INSTAGRAM_REEL, U_INSTAGRAM_STORY,
     U_INSTAGRAM_PROFILE, U_EXAMPLE}

ResolveInfos ==
    {None, EmptyDict,
     BackendRaise("DownloadError", <<"private">>),
     BackendRaise("Exception", <<"video">>),
     InfoOf(<<>>, KeyMissing), InfoOf(<<>>, "https://cdn/top"),
     InfoOf(<<NoneItem>>, KeyMissing), ScenarioInfo}

ResolveMedia ==
    {BackendRaise("Exception", <<"login_required">>),
     Media(2, "https://ig/v.mp4", "https://ig/t.jpg", 1080, 1920, 15),
     Media(2, "https://ig/v.mp4", PyNone, 0, 0, 15),
     Media(1, PyNone, "https://ig/t.jpg", 1080, 1080, 0)}

Backends(u) == IF GetPlatform(u) = "instagram" THEN ResolveMedia ELSE ResolveInfos

\* One url, and what its backend does whenever it is called.
InitResolve ==
    /\ clock = 0
    /\ cache = [u \in ResolveUrls |-> None]
    /\ heap = [r \in Refs |-> Unallocated]
    /\ nCalls = 0
    /\ pc = [t \in Tasks |-> "idle"]
    /\ url = [t \in Tasks |-> NoUrl]
    /\ now = [t \in Tasks |-> 0]
    /\ lookup = [t \in Tasks |-> "none"]
    /\ last = [task |-> 0, url |-> NoUrl, lookup |-> "none", ret |-> None,
               flip |-> FALSE]
    /\ firstCall = [u \in ResolveUrls |-> None]
    /\ AppIdle
    /\ raw \in {[url |-> u, backend |-> b] : u \in ResolveUrls, b \in ResolveMedia \cup ResolveInfos}
    /\ raw.backend \in Backends(raw.url)
    /\ adapter = "none"
    /\ out = None

\* Downloader.get_video_info, a whole call with no other task in between: the
\* lookup (lines 539-544), and after a miss the adapter and lines 561-566.
Resolve ==
    LET u == raw.url
        hit == cache[u] # None /\ Fresh(clock, cache[u].time)
    IN  /\ hit \/ GetPlatform(u) = NoPlatform \/ nCalls < MaxExtractions
        /\ adapter' = "resolve"
        /\ out' = IF hit THEN cache[u].data ELSE AfterMiss(u, raw.backend)
        \* lines 562-565: the value returned after a miss is the value stored
        /\ cache' = IF hit THEN cache
                    ELSE IF out'.ok /\ out' # ReturnedNone
                    THEN [cache EXCEPT ![u] = [data |-> out', time |-> clock]]
                    ELSE CacheAfterLookup(u, clock)
        /\ nCalls' = IF hit \/ GetPlatform(u) = NoPlatform THEN nCalls ELSE nCalls + 1
        /\ last' = Completion(1, u, IF hit THEN "hit" ELSE LookupMiss(u), None)
        /\ UNCHANGED <<clock, heap, pc, url, now, lookup, firstCall, raw>>
        /\ UNCHANGED appVars

NextResolve == Resolve \/ Tick

SpecResolve == InitResolve /\ [][NextResolve]_vars

\* The fields of a rendition, and a VideoInfo all of whose renditions have
\* them all.
RenditionKeys ==
    {"url", "format_id", "ext", "filesize", "format", "duration", "width", "height"}

Complete(v) ==
    /\ {"duration", "formats"} \subseteq DOMAIN v
    /\ \A i \in 1..Len(v.formats) : RenditionKeys \subseteq DOMAIN v.formats[i]

\* C21: a call of resolve either returns a complete VideoInfo, which the cache
\* then holds for the url, or raises, and then the cache holds no entry for
\* the url; it never returns None; and no entry of another url changes.
C21_ValueStoredOrErrorNothingStored ==
    [][Resolve =>
          /\ out' # ReturnedNone
          /\ out'.ok =>
                /\ Complete(out')
                /\ cache'[raw.url] # None
                /\ cache'[raw.url].data = out'
          /\ ~out'.ok =>
                /\ out'.class = ServiceError
                /\ cache'[raw.url] = None
          /\ \A v \in ResolveUrls \ {raw.url} : cache'[v] = cache[v]
      ]_vars

\* A photo post of Instagram, for which get_media_info returns nothing, was
\* refused with an error, and the cache holds no entry for its url.
C21_Witness ==
    /\ adapter = "resolve"
    /\ raw.url = U_INSTAGRAM_REEL
    /\ raw.backend = Media(1, PyNone, "https://ig/t.jpg", 1080, 1080, 0)
    /\ ~out.ok
    /\ out.err = InstagramLoadError(UnsupportedContentText)
    /\ cache[raw.url] = None

\* ------------------------------------------------------- the format_id values

\* C22: every format_id an adapter emits is one of url144, url240, url360,
\* url480, url720, url1080, whatever the raw heights are.
C22_FormatIdInEnumeration ==
    Normalized =>
        \A k \in 1..Len(out.formats) :
            out.formats[k].format_id \in {UrlN(t) : t \in Tiers}

\* ------------------------------------------------------------- the keyboard
\* src/keyboards.py and validate_download_data of src/handlers/user.py. A str
\* that is built, compared or split is the sequence of its characters.

\* str(n) of an int, as characters.
RECURSIVE NatChars(_)
NatChars(n) ==
    IF n < 10 THEN <<Digits[n + 1]>>
    ELSE NatChars(n \div 10) \o <<Digits[(n % 10) + 1]>>

IntChars(n) == IF n < 0 THEN <<"-">> \o NatChars(0 - n) ELSE NatChars(n)

\* The characters of a format_id: f'url{height}' and the values of
\* quality_mapping.
FormatIdChars(id) == <<"u", "r", "l">> \o IntChars(id.n)

\* int(s) of a str: the value, or a ValueError.
ParseInt(cs) ==
    LET ds == IF cs # <<>> /\ cs[1] \in {"-", "+"} THEN Tail(cs) ELSE cs
    IN  IF ds # <<>> /\ \A i \in 1..Len(ds) : IsDigit(ds[i])
        THEN [ok |-> TRUE,
              v |-> IF cs[1] = "-" THEN 0 - DigitsVal(ds) ELSE DigitsVal(ds)]
        ELSE [ok |-> FALSE, v |-> 0]

\* s.split(sep)
RECURSIVE Split(_, _)
Split(cs, sep) ==
    LET at == {i \in 1..Len(cs) : cs[i] = sep}
    IN  IF at = {} THEN <<cs>>
        ELSE LET i == CHOOSE i \in at : \A j \in at : i <= j
             IN  <<SubSeq(cs, 1, i - 1)>> \o Split(SubSeq(cs, i + 1, Len(cs)), sep)

AudioChars == <<"a", "u", "d", "i", "o">>
VideoChars == <<"v", "i", "d", "e", "o">>
SizeLimitChars == <<"s", "i", "z", "e", "_", "l", "i", "m", "i", "t">>

\* f"dl_{video_id}_{quality}_{file_type}"
CallbackDataDashed(video_id, quality, file_type) ==
    <<"d", "l", "_">> \o IntChars(video_id) \o <<"-">> \o quality \o <<"_">> \o file_type

CallbackData(video_id, quality, file_type) ==
    <<"d", "l", "_">> \o IntChars(video_id) \o <<"_">> \o quality \o <<"_">> \o file_type

\* The tuple validate_download_data returns.
Parsed(video_id, format_id, file_type) ==
    [video_id |-> video_id, format_id |-> format_id, file_type |-> file_type]

\* validate_download_data: the unpacking of a split into other than four
\* parts and int() of a text that is no number are ValueErrors, and give None.
ValidateDownloadData(callback_data) ==
    LET parts == Split(callback_data, "_")
    IN  IF Len(parts) # 4 THEN None
        ELSE IF ~ParseInt(parts[2]).ok THEN None
        ELSE Parsed(ParseInt(parts[2]).v, parts[3], parts[4])

\* keyboards.py line 6
MAX_FILE_SIZE == 2000 * 1024 * 1024

\* estimate_video_size: BITRATES, in kbit/s (thousandths of the Mbps of the
\* source), by quality; 5.0 Mbps for any other quality.
Bitrate(quality) ==
    CASE quality = IntChars(144) -> 200
      [] quality = IntChars(240) -> 350
      [] quality = IntChars(360) -> 650
      [] quality = IntChars(480) -> 1700
      [] quality = IntChars(720) -> 3300
      [] quality = IntChars(1080) -> 5200
      [] quality = AudioChars -> 128
      [] OTHER -> 5000

\* estimate_video_size: int(bitrate * 1024 * 1024 * duration / 8 * 1.1), which
\* is the whole part of duration * kbit * 90112 / 625 (computed here without
\* exceeding 32 bits).
EstimateVideoSize(duration, quality) ==
    LET perSecond == Bitrate(quality) * 90112
    IN  (perSecond \div 625) * duration + ((perSecond % 625) * duration) \div 625

\* get_file: the row of the key (the first one, if there are several), or None.
GetFile(video_id, quality, file_type) ==
    LET rows == {i \in 1..Len(files) :
                    /\ files[i].video_id = video_id
                    /\ files[i].quality = quality
                    /\ files[i].type = file_type}
    IN  IF rows = {} THEN None ELSE files[CHOOSE i \in rows : \A j \in rows : i <= j]

\* An InlineKeyboardButton: its text (the label, the size handed to
\* format_size, and the mark of a stored file or of the size limit), and its
\* callback_data.
Button(label, size, mark, callback_data) ==
    [label |-> label, size |-> size, mark |-> mark, callback_data |-> callback_data]

\* lines 113-126 and 151-164: the button of a size.
SizedButton(label, size, stored, callback_data) ==
    IF size < MAX_FILE_SIZE
    THEN Button(label, size, IF stored # None THEN "stored" ELSE "", callback_data)
    ELSE Button(label, size, "limit", SizeLimitChars)

\* lines 77-98: no adapter emits the format_id 'worstaudio', so the size of
\* the audio button is always estimated.
AudioButton(video_id, duration) ==
    SizedButton("audio", EstimateVideoSize(duration, AudioChars),
                GetFile(video_id, AudioChars, AudioChars),
                CallbackData(video_id, AudioChars, AudioChars))

\* lines 101-104: `platform in str(source_url).lower()`
IsInstagram(source_url) ==
    \E p \in {"instagram.com", "/p/", "/reel/", "/stories/"} :
        Contains(LowerMsg(source_url), p)

\* line 108: max(formats, key=...), the first format of the largest size.
BestFormat(formats) ==
    formats[CHOOSE i \in 1..Len(formats) :
               /\ \A j \in 1..Len(formats) : formats[j].filesize <= formats[i].filesize
               /\ \A j \in 1..(i - 1) : formats[j].filesize < formats[i].filesize]

\* lines 106-126: the one button of the Instagram branch.
InstagramButton(video_id, formats) ==
    SizedButton("HD", BestFormat(formats).filesize,
                GetFile(video_id, IntChars(720), VideoChars),
                CallbackData(video_id, IntChars(720), VideoChars))

\* lines 129-136
VideoResolutions ==
    << <<"256x144", IntChars(144)>>, <<"426x240", IntChars(240)>>,
       <<"640x360", IntChars(360)>>, <<"852x480", IntChars(480)>>,
       <<"1280x720", IntChars(720)>>, <<"1920x1080", IntChars(1080)>> >>

\* lines 139-142: the first format whose format_id is f'url{quality}'.
MatchingFormat(formats, quality) ==
    LET at == {i \in 1..Len(formats) :
                  FormatIdChars(formats[i].format_id) = <<"u", "r", "l">> \o quality}
    IN  IF at = {} THEN None ELSE formats[CHOOSE i \in at : \A j \in at : i <= j]

\* lines 144-164: the button of one resolution.
ResolutionButton(video_id, duration, f, res) ==
    SizedButton(res[1],
                IF f.filesize = 0 THEN EstimateVideoSize(duration, res[2]) ELSE f.filesize,
                GetFile(video_id, res[2], VideoChars),
                CallbackData(video_id, res[2], VideoChars))

\* lines 138-164: the buttons of the first n resolutions.
RECURSIVE ResolutionButtons(_, _, _, _)
ResolutionButtons(video_id, duration, formats, n) ==
    IF n = 0 THEN <<>>
    ELSE LET rest == ResolutionButtons(video_id, duration, formats, n - 1)
             f == MatchingFormat(formats, VideoResolutions[n][2])
         IN  IF f = None THEN rest
             ELSE Append(rest, ResolutionButton(video_id, duration, f, VideoResolutions[n]))

\* get_download_keyboard: max() of an empty list is a ValueError.
GetDownloadKeyboard(video_id, info) ==
    LET duration == info.duration.decimal
    IN  IF IsInstagram(info.source_url)
        THEN IF info.formats = <<>> THEN RaisedException(<<"ValueError">>)
             ELSE [ok |-> TRUE,
                   keyboard |-> <<AudioButton(video_id, duration),
                                  InstagramButton(video_id, info.formats)>>]
        ELSE [ok |-> TRUE,
              keyboard |-> <<AudioButton(video_id, duration)>>
                           \o ResolutionButtons(video_id, duration, info.formats,
                                                Len(VideoResolutions))]

\* Renditions in an info dict handed to the keyboard.
MaxRenditions == 2

\* The fields of a rendition the keyboard reads; height 700 is no tier, and
\* the largest size is above MAX_FILE_SIZE.
KeyboardRenditions ==
    {[format_id |-> UrlN(h), filesize |-> size] :
        h \in {144, 700, 720}, size \in {0, 5000, 2100000000}}

\* The source_url of an info dict: the url of the call, or the media code
\* that extract_media_info puts there.
KeyboardSources == {U_YOUTUBE, U_INSTAGRAM_REEL, <<"Cx1">>}

\* A row of the table files.
FileRow(file_id, video_id, quality, file_type) ==
    [file_id |-> file_id, video_id |-> video_id, quality |-> quality,
     type |-> file_type]

InitKeyboard ==
    /\ InitCache
    /\ downloads = {}
    /\ dl = [t \in Tasks |-> NoDownload]
    /\ client = "None"
    /\ session_file = "absent"
    /\ user_requests = [u \in Users |-> <<>>]
    /\ blocked_users = [u \in Users |-> None]
    /\ history = [u \in Users |-> NoHistory]
    /\ files \in {<<>>, <<FileRow(1, 7, IntChars(720), VideoChars)>>}
    /\ raw \in [video_id : {7, 12},
                info : [duration : {Str(0), Str(60)},
                        formats : UNION {[1..n -> KeyboardRenditions] : n \in 0..MaxRenditions},
                        source_url : KeyboardSources]]
    /\ adapter = "none"
    /\ out = None

\* send_video_preview, line 564: the keyboard of the info dict.
RunGetDownloadKeyboard ==
    /\ adapter = "none"
    /\ adapter' = "get_download_keyboard"
    /\ out' = GetDownloadKeyboard(raw.video_id, raw.info)
    /\ UNCHANGED <<raw, cacheVars, appVars>>

\* The user presses button k, whose callback_data begins with "dl_" (line
\* 589): process_download hands it to validate_download_data (line 607).
RunValidateDownloadData(k) ==
    /\ adapter = "get_download_keyboard"
    /\ out.ok
    /\ k \in 1..Len(out.keyboard)
    /\ SubSeq(out.keyboard[k].callback_data, 1, 3) = <<"d", "l", "_">>
    /\ adapter' = "validate_download_data"
    /\ out' = [ok |-> TRUE, keyboard |-> out.keyboard, pressed |-> k,
               parsed |-> ValidateDownloadData(out.keyboard[k].callback_data)]
    /\ UNCHANGED <<raw, cacheVars, appVars>>

NextKeyboard ==
    \/ RunGetDownloadKeyboard
    \/ \E k \in 1..(1 + Len(VideoResolutions)) : RunValidateDownloadData(k)

SpecKeyboard == InitKeyboard /\ [][NextKeyboard]_vars

\* The qualities of the six tiers, as the buttons name them.
TierQualities == {IntChars(t) : t \in Tiers}

MaxFiles == 2

\* The videos of the table videos.
DbVideos == {7}

\* The buttons that are pressed: two of a video of the table, one of a video
\* that is not there.
DownloadKeys ==
    {Parsed(7, IntChars(720), VideoChars), Parsed(7, AudioChars, AudioChars),
     Parsed(9, IntChars(720), VideoChars)}

\* A call suspended at `at`, for the button `key` pressed by `user`, holding
\* the row `file_info` that get_file gave it and the file_id that add_file
\* returned (0 before).
Download(at, user, key, file_info, file_id) ==
    [pc |-> at, user |-> user, key |-> key, file_info |-> file_info,
     file_id |-> file_id]

\* A call that has ended, and how.
Ended(how) == [pc |-> "idle", ended |-> how]

\* The calls that are in process_new_download and have added no row yet.
Downloading ==
    {t \in Tasks : dl[t].pc \in {"downloading", "uploading", "saving"}}

\* lines 605-653, from the validation to the first await of Telegram or of
\* the download: get_file and get_video_by_id read the tables, and a call that
\* got a row sends the stored file, any other begins a new download.
ProcessDownloadAlwaysNew(t, user, key) ==
    /\ dl[t].pc = "idle"
    /\ LET file_info == GetFile(key.video_id, key.format_id, key.file_type)
       IN  IF key.video_id \notin DbVideos
           THEN dl' = [dl EXCEPT ![t] = Ended("video_not_found")]
           ELSE /\ Len(files) + Cardinality(Downloading) < MaxFiles
                /\ dl' = [dl EXCEPT ![t] = Download("downloading", user, key, file_info, 0)]
    /\ UNCHANGED <<files, downloads, client, session_file, user_requests, blocked_users, history>>
    /\ UNCHANGED <<cacheVars, normVars>>

ProcessDownload(t, user, key) ==
    /\ dl[t].pc = "idle"
    /\ LET file_info == GetFile(key.video_id, key.format_id, key.file_type)
       IN  IF key.video_id \notin DbVideos
           THEN dl' = [dl EXCEPT ![t] = Ended("video_not_found")]
           ELSE IF file_info # None
           THEN dl' = [dl EXCEPT ![t] = Download("sending_stored", user, key, file_info, 0)]
           ELSE /\ Len(files) + Cardinality(Downloading) < MaxFiles
                /\ dl' = [dl EXCEPT ![t] = Download("downloading", user, key, file_info, 0)]
    /\ UNCHANGED <<files, downloads, client, session_file, user_requests, blocked_users, history>>
    /\ UNCHANGED <<cacheVars, normVars>>

\* lines 632-648: Telegram accepted the stored file id.
SendStoredOk(t) ==
    /\ dl[t].pc = "sending_stored"
    /\ dl' = [dl EXCEPT ![t] = Ended("sent_stored")]
    /\ UNCHANGED <<files, downloads, client, session_file, user_requests, blocked_users, history>>
    /\ UNCHANGED <<cacheVars, normVars>>

\* lines 649-653: it raised a TelegramAPIError, and the file is downloaded anew.
SendStoredFails(t) ==
    /\ dl[t].pc = "sending_stored"
    /\ Len(files) + Cardinality(Downloading) < MaxFiles
    /\ dl' = [dl EXCEPT ![t].pc = "downloading"]
    /\ UNCHANGED <<files, downloads, client, session_file, user_requests, blocked_users, history>>
    /\ UNCHANGED <<cacheVars, normVars>>

\* process_new_download, lines 688-705: the download ends; a file that is
\* missing or empty, and any exception, end the call with an error (lines
\* 715-716 and 655-658).
DownloadEnds(t, ok) ==
    /\ dl[t].pc = "downloading"
    /\ dl' = [dl EXCEPT ![t] = IF ok THEN [dl[t] EXCEPT !.pc = "uploading"]
                                 ELSE Ended("failed")]
    /\ UNCHANGED <<files, downloads, client, session_file, user_requests, blocked_users, history>>
    /\ UNCHANGED <<cacheVars, normVars>>

\* lines 708-709: send_file returns the message, or raises.
UploadEnds(t, ok) ==
    /\ dl[t].pc = "uploading"
    /\ dl' = [dl EXCEPT ![t] = IF ok THEN [dl[t] EXCEPT !.pc = "saving"]
                                 ELSE Ended("failed")]
    /\ UNCHANGED <<files, downloads, client, session_file, user_requests, blocked_users, history>>
    /\ UNCHANGED <<cacheVars, normVars>>

\* save_file_info, lines 738-744: add_file inserts a row and returns its
\* file_id.
AddFile(t) ==
    /\ dl[t].pc = "saving"
    /\ files' = Append(files, FileRow(Len(files) + 1, dl[t].key.video_id,
                                      dl[t].key.format_id, dl[t].key.file_type))
    /\ dl' = [dl EXCEPT ![t] = [dl[t] EXCEPT !.pc = "recording",
                                            !.file_id = Len(files) + 1]]
    /\ UNCHANGED <<downloads, client, session_file, user_requests, blocked_users, history>>
    /\ UNCHANGED <<cacheVars, normVars>>

\* save_file_info, lines 738-744: message.video.file_id, the stat of the file
\* or add_file raises, and the call ends with the error of lines 715-716.
AddFileRaises(t) ==
    /\ dl[t].pc = "saving"
    /\ dl' = [dl EXCEPT ![t] = Ended("failed")]
    /\ UNCHANGED <<files, downloads, client, session_file, user_requests, blocked_users, history>>
    /\ UNCHANGED <<cacheVars, normVars>>

AddDownloadOfNoFile(t) ==
    /\ dl[t].pc = "recording"
    /\ downloads' = downloads \cup
           {[user_id |-> dl[t].user, video_id |-> dl[t].key.video_id,
             file_id |-> 0]}
    /\ dl' = [dl EXCEPT ![t] = Ended("downloaded")]
    /\ UNCHANGED <<files, client, session_file, user_requests, blocked_users, history>>
    /\ UNCHANGED <<cacheVars, normVars>>

\* save_file_info, lines 746-750: add_download inserts a row (ON CONFLICT DO
\* NOTHING), and the call ends.
AddDownload(t) ==
    /\ dl[t].pc = "recording"
    /\ downloads' = downloads \cup
           {[user_id |-> dl[t].user, video_id |-> dl[t].key.video_id,
             file_id |-> dl[t].file_id]}
    /\ dl' = [dl EXCEPT ![t] = Ended("downloaded")]
    /\ UNCHANGED <<files, client, session_file, user_requests, blocked_users, history>>
    /\ UNCHANGED <<cacheVars, normVars>>

NextDownload ==
    \/ \E t \in Tasks, user \in Users, key \in DownloadKeys : ProcessDownload(t, user, key)
    \/ \E t \in Tasks : SendStoredOk(t)
    \/ \E t \in Tasks : SendStoredFails(t)
    \/ \E t \in Tasks, ok \in BOOLEAN : DownloadEnds(t, ok)
    \/ \E t \in Tasks, ok \in BOOLEAN : UploadEnds(t, ok)
    \/ \E t \in Tasks : AddFile(t)
    \/ \E t \in Tasks : AddFileRaises(t)
    \/ \E t \in Tasks : AddDownload(t)

SpecDownload == Init /\ [][NextDownload]_vars

\* C24: a call that got a row for its (video_id, quality, file_type) sends the
\* stored file; when that succeeds the call ends, with no download begun and
\* the tables files and downloads as they were; and a call begins a download
\* only when get_file gave it no row or when sending the stored file failed.
C24_StoredFileSkipsDownload ==
    [][\A t \in Tasks :
          /\ (dl[t].pc = "idle" /\ dl'[t].pc # "idle") =>
                LET key == dl'[t].key
                    row == GetFile(key.video_id, key.format_id, key.file_type)
                IN  /\ dl'[t].file_info = row
                    /\ (row # None) = (dl'[t].pc = "sending_stored")
                    /\ (row = None) = (dl'[t].pc = "downloading")
          /\ (dl[t].pc = "sending_stored" /\ dl'[t].pc = "idle") =>
                /\ dl'[t] = Ended("sent_stored")
                /\ files' = files
                /\ downloads' = downloads
          /\ (dl[t].pc # "downloading" /\ dl'[t].pc = "downloading") =>
                \/ dl[t].pc = "idle" /\ dl'[t].file_info = None
                \/ dl[t].pc = "sending_stored"
          /\ files' # files => \E s \in Tasks : dl[s].pc = "saving"
      ]_vars

\* A file was downloaded once and then sent again by its stored file id: one
\* row in files, one in downloads.
C24_Witness ==
    /\ \E t \in Tasks : dl[t] = Ended("sent_stored")
    /\ \E t \in Tasks : dl[t] = Ended("downloaded")
    /\ Len(files) = 1
    /\ Cardinality(downloads) = 1

\* ------------------------------------------------------------ _get_platform
\* Downloader._get_platform on URLs made of any fragments, markers included,
\* in any order and number.

MaxFragments == 3

Fragments == Markers \cup {"https://", "example.com"}

PlatformUrls == UNION {[1..n -> Fragments] : n \in 0..MaxFragments}

InitPlatform ==
    /\ InitCache
    /\ AppIdle
    /\ raw \in PlatformUrls
    /\ adapter = "none"
    /\ out = None

RunGetPlatform ==
    /\ adapter = "none"
    /\ adapter' = "_get_platform"
    /\ out' = GetPlatform(raw)
    /\ UNCHANGED <<raw, cacheVars, appVars>>

NextPlatform == RunGetPlatform \/ Tick

SpecPlatform == InitPlatform /\ [][NextPlatform]_vars

\* The markers in the order of the branches, each with its platform.
MarkerTable ==
    <<[marker |-> "youtube.com", platform |-> "youtube"],
      [marker |-> "youtu.be", platform |-> "youtube"],
      [marker |-> "instagram.com", platform |-> "instagram"],
      [marker |-> "tiktok.com", platform |-> "tiktok"],
      [marker |-> "vk.com", platform |-> "vk"],
      [marker |-> "rutube.ru", platform |-> "rutube"]>>

\* C25: _get_platform gives the platform of the first marker, in the order
\* youtube.com / youtu.be, instagram.com, tiktok.com, vk.com, rutube.ru, that
\* occurs in the URL, and None exactly when none occurs; the result is a
\* function of the URL alone, whatever the time.
C25_FirstMarkerInOrder ==
    adapter = "_get_platform" =>
        LET occurring == {i \in 1..Len(MarkerTable) : Contains(raw, MarkerTable[i].marker)}
        IN  /\ (out = NoPlatform) = (occurring = {})
            /\ occurring # {} =>
                  \E i \in occurring :
                      /\ \A j \in occurring : i <= j
                      /\ out = MarkerTable[i].platform
            /\ out = NoPlatform <=> \A i \in 1..Len(raw) : raw[i] \notin Markers

\* A URL where vk.com stands before tiktok.com is a tiktok one, at a later time.
C25_Witness ==
    /\ adapter = "_get_platform"
    /\ raw = <<"https://", "vk.com", "tiktok.com">>
    /\ out = "tiktok"
    /\ clock > 0

\* ------------------------------------------------------------ ensure_client
\* src/session_manager.py lines 22-50. The client is "None" before the first
\* call, "authorized" once its stored session was validated or its login
\* completed, "unauthorized" when it is a Client() that has neither. The
\* session file is "absent", or holds a session the server accepts ("valid")
\* or refuses ("stale"). The functions of instagrapi are synchronous: a call
\* of get_media_info runs without suspension.

\* ensure_client, given whether a login would succeed: what it leaves in
\* self.client and in the session file, whether it returned (or raised), and
\* whether it validated the stored session or attempted a login.
EnsureClient(login_ok) ==
    \* lines 24-25
    IF client # "None"
    THEN [returned |-> TRUE, client |-> client, session_file |-> session_file,
          validated |-> FALSE, login_attempted |-> FALSE]
    \* lines 27-39: self.client = Client(), and the stored session is accepted
    ELSE IF session_file = "valid"
    THEN [returned |-> TRUE, client |-> "authorized", session_file |-> session_file,
          validated |-> TRUE, login_attempted |-> FALSE]
    \* lines 44-48: the login completes and the session is written
    ELSE IF login_ok
    THEN [returned |-> TRUE, client |-> "authorized", session_file |-> "valid",
          validated |-> FALSE, login_attempted |-> TRUE]
    \* lines 49-50: the login raises, and self.client stays the Client() of
    \* line 27
    ELSE [returned |-> FALSE, client |-> "unauthorized", session_file |-> session_file,
          validated |-> FALSE, login_attempted |-> TRUE]

InstagramUrls == {U_INSTAGRAM_REEL, U_INSTAGRAM_STORY}

\* One url and what Instagram gives for it; the session file an earlier run
\* may have left.
InitInstagram ==
    /\ InitCache
    /\ files = <<>>
    /\ downloads = {}
    /\ dl = [t \in Tasks |-> NoDownload]
    /\ client = "None"
    /\ session_file \in {"absent", "valid", "stale"}
    /\ user_requests = [u \in Users |-> <<>>]
    /\ blocked_users = [u \in Users |-> None]
    /\ history = [u \in Users |-> NoHistory]
    /\ raw \in [url : InstagramUrls, backend : ResolveMedia]
    /\ adapter = "none"
    /\ out = None

\* InstagramService.get_media_info, lines 95-140: the exception of
\* ensure_client is re-raised; the requests of a client that is not authorized
\* are refused or served, as Instagram decides.
CallGetMediaInfo(login_ok, served) ==
    /\ LET e == EnsureClient(login_ok)
           result == IF ~e.returned THEN RaisedException(<<"login_failed">>)
                     ELSE IF e.client = "unauthorized" /\ ~served
                     THEN RaisedException(<<"login_required">>)
                     ELSE GetMediaInfo(raw.url, raw.backend)
       IN  /\ client' = e.client
           /\ session_file' = e.session_file
           /\ out' = [ensure |-> e, result |-> result]
    /\ adapter' = "get_media_info"
    /\ UNCHANGED <<raw, cacheVars, files, downloads, dl, user_requests, blocked_users, history>>

\* InstagramService.download_media, lines 142-229: the same client, then the
\* media without a video raises, and the file is written when the response
\* has status 200.
CallDownloadMedia(login_ok, served, status_200) ==
    /\ LET e == EnsureClient(login_ok)
           result == IF ~e.returned THEN RaisedException(<<"login_failed">>)
                     ELSE IF e.client = "unauthorized" /\ ~served
                     THEN RaisedException(<<"login_required">>)
                     ELSE IF BackendRaised(raw.backend) THEN RaisedException(raw.backend.msg)
                     ELSE IF Falsy(raw.backend.video_url)
                     THEN RaisedException(IF Contains(raw.url, "/stories/")
                                          THEN <<"Story doesn't contain video">>
                                          ELSE <<"Media has no video">>)
                     ELSE [ok |-> TRUE, value |-> status_200]
       IN  /\ client' = e.client
           /\ session_file' = e.session_file
           /\ out' = [ensure |-> e, result |-> result]
    /\ adapter' = "download_media"
    /\ UNCHANGED <<raw, cacheVars, files, downloads, dl, user_requests, blocked_users, history>>

NextInstagram ==
    \/ \E login_ok \in BOOLEAN, served \in BOOLEAN : CallGetMediaInfo(login_ok, served)
    \/ \E login_ok \in BOOLEAN, served \in BOOLEAN, status_200 \in BOOLEAN :
           CallDownloadMedia(login_ok, served, status_200)

SpecInstagram == InitInstagram /\ [][NextInstagram]_vars

\* C26: the client ensure_client returns has a validated stored session or a
\* completed login; after a call whose login failed, the next call does not
\* return the client but attempts the authorization again.
C26_ReturnedClientAuthorized ==
    [][adapter' \in {"get_media_info", "download_media"} =>
          /\ out'.ensure.returned => out'.ensure.client = "authorized"
          /\ client = "unauthorized" =>
                out'.ensure.validated \/ out'.ensure.login_attempted
      ]_vars

\* ------------------------------------------------- the single-rendition paths
\* C27: every VideoInfo a resolve of an Instagram url returns has exactly one
\* rendition, with all the fields of a rendition and the format_id url720; and
\* every VideoInfo a resolve of a TikTok url returns has exactly one rendition,
\* whether the payload had a list of formats or none.
C27_SingleRendition ==
    (/\ adapter = "resolve"
     /\ GetPlatform(raw.url) \in {"instagram", "tiktok"}
     /\ out # ReturnedNone
     /\ out.ok)
    => /\ Len(out.formats) = 1
       /\ Complete(out)
       /\ out.formats[1].format_id = UrlN(720)
       /\ GetPlatform(raw.url) = "instagram" => out.formats[1].filesize = 0

\* A TikTok payload without a list of formats gave one rendition, that of the
\* payload's own url.
C27_Witness ==
    /\ adapter = "resolve"
    /\ raw.url = U_TIKTOK
    /\ raw.backend = InfoOf(<<>>, "https://cdn/top")
    /\ out.ok
    /\ Len(out.formats) = 1
    /\ out.formats[1].url = "https://cdn/top"

\* ---------------------------------------------------------- the unknown size
\* C28: the button of a rendition of size 0 shows, and compares with
\* MAX_FILE_SIZE, the size estimated from the duration and the quality, in the
\* Instagram branch as in the branch of the other platforms.
C28_UnknownSizeEstimated ==
    (adapter = "get_download_keyboard" /\ out.ok) =>
        LET info == raw.info
            duration == info.duration.decimal
        IN  IF IsInstagram(info.source_url)
            THEN BestFormat(info.formats).filesize = 0 =>
                    out.keyboard[2].size = EstimateVideoSize(duration, IntChars(720))
            ELSE \A n \in 1..Len(VideoResolutions) :
                    LET f == MatchingFormat(info.formats, VideoResolutions[n][2])
                    IN  (f # None /\ f.filesize = 0) =>
                            \E k \in 2..Len(out.keyboard) :
                                /\ out.keyboard[k].label = VideoResolutions[n][1]
                                /\ out.keyboard[k].size =
                                       EstimateVideoSize(duration, VideoResolutions[n][2])

\* ------------------------------------------------------------------ AntiSpam
\* src/handlers/user.py lines 66-103, with the clock in seconds.

max_requests == 30
time_window == 60
block_duration == 300

\* line 80: datetime.now() < block_end_time
BlockedNowInclusive(u) ==
    blocked_users[u] # None /\ clock <= blocked_users[u].block_end_time

BlockedNow(u) ==
    blocked_users[u] # None /\ clock < blocked_users[u].block_end_time

\* is_blocked, lines 76-85: the pair it returns, and blocked_users after it
\* (an entry that has ended is deleted).
IsBlockedCall(u) ==
    IF BlockedNow(u)
    THEN [blocked |-> TRUE, remaining |-> blocked_users[u].block_end_time - clock,
          blocked_users |-> blocked_users]
    ELSE [blocked |-> FALSE, remaining |-> None,
          blocked_users |-> [blocked_users EXCEPT ![u] = None]]

\* lines 93-95: the timestamps less than time_window old.
Recent(times) ==
    LET InWindow(time) == clock - time < time_window
    IN  SelectSeq(times, InWindow)

\* add_request, lines 87-103, on the blocked_users `blocked`: what it returns,
\* and user_requests and blocked_users after it.
AddRequestCallOverLimit(u, blocked) ==
    LET user_times == Recent(user_requests[u])
    IN  IF Len(user_times) > max_requests
        THEN [value |-> FALSE,
              user_requests |-> [user_requests EXCEPT ![u] = user_times],
              blocked_users |-> [blocked EXCEPT ![u] =
                                    [block_end_time |-> clock + block_duration]]]
        ELSE [value |-> TRUE,
              user_requests |-> [user_requests EXCEPT ![u] = Append(user_times, clock)],
              blocked_users |-> blocked]

AddRequestCall(u, blocked) ==
    LET user_times == Recent(user_requests[u])
    IN  IF Len(user_times) >= max_requests
        THEN [value |-> FALSE,
              user_requests |-> [user_requests EXCEPT ![u] = user_times],
              blocked_users |-> [blocked EXCEPT ![u] =
                                    [block_end_time |-> clock + block_duration]]]
        ELSE [value |-> TRUE,
              user_requests |-> [user_requests EXCEPT ![u] = Append(user_times, clock)],
              blocked_users |-> blocked]

\* The history after add_request returned `value`.
Logged(u, value) ==
    [history EXCEPT ![u] =
        IF value THEN [@ EXCEPT !.granted = Append(@, clock)]
        ELSE [@ EXCEPT !.rejected_at = <<clock>>]]

IsBlocked(u) ==
    /\ LET r == IsBlockedCall(u)
       IN  /\ blocked_users' = r.blocked_users
           /\ out' = [ok |-> TRUE, blocked |-> r.blocked, remaining |-> r.remaining]
    /\ adapter' = "is_blocked"
    /\ UNCHANGED <<raw, cacheVars, files, downloads, dl, client, session_file,
                   user_requests, history>>

AddRequest(u) ==
    /\ LET r == AddRequestCall(u, blocked_users)
       IN  /\ user_requests' = r.user_requests
           /\ blocked_users' = r.blocked_users
           /\ history' = Logged(u, r.value)
           /\ out' = [ok |-> TRUE, value |-> r.value]
    /\ adapter' = "add_request"
    /\ UNCHANGED <<raw, cacheVars, files, downloads, dl, client, session_file>>

\* Half a window passes. The history forgets the grants that are time_window
\* old or older.
Seconds ==
    /\ clock + time_window \div 2 <= 60 * MaxTime
    /\ clock' = clock + time_window \div 2
    /\ history' = [u \in Users |->
                      LET Kept(time) == clock' - time < time_window
                      IN  [history[u] EXCEPT !.granted = SelectSeq(@, Kept)]]
    /\ UNCHANGED <<cache, heap, nCalls, pc, url, now, lookup, last, firstCall>>
    /\ UNCHANGED <<normVars, files, downloads, dl, client, session_file,
                   user_requests, blocked_users>>

InitAntiSpam ==
    /\ InitCache
    /\ AppIdle
    /\ raw = None
    /\ adapter = "none"
    /\ out = None

NextAntiSpam ==
    \/ \E u \in Users : IsBlocked(u)
    \/ \E u \in Users : AddRequest(u)
    \/ Seconds

SpecAntiSpam == InitAntiSpam /\ [][NextAntiSpam]_vars

\* C29: whatever the calls of add_request and the times between them, at most
\* max_requests of them returned True within the last time_window seconds,
\* and the list of a user holds at most max_requests timestamps.
C29_AtMostMaxRequestsPerWindow ==
    \A u \in Users :
        /\ Len(history[u].granted) <= max_requests
        /\ Len(user_requests[u]) <= max_requests

\* The limit was reached by grants at two different times, and the next call
\* was refused.
C29_Witness ==
    \E u \in Users :
        /\ adapter = "add_request"
        /\ ~out.value
        /\ Len(history[u].granted) = max_requests
        /\ history[u].granted[1] # history[u].granted[max_requests]

\* ------------------------------------------------------------ the rate limit
\* process_video_url lines 482-490 and process_download lines 594-603, the
\* only callers of AntiSpam: is_blocked, and add_request when it said no; no
\* await stands between the two.
RateLimit(u) ==
    /\ LET b == IsBlockedCall(u)
           r == AddRequestCall(u, b.blocked_users)
       IN  IF b.blocked
           THEN /\ out' = [ok |-> TRUE, blocked |-> TRUE, remaining |-> b.remaining,
                           admitted |-> FALSE]
                /\ UNCHANGED <<user_requests, blocked_users, history>>
           ELSE /\ out' = [ok |-> TRUE, blocked |-> FALSE, remaining |-> None,
                           admitted |-> r.value]
                /\ user_requests' = r.user_requests
                /\ blocked_users' = r.blocked_users
                /\ history' = Logged(u, r.value)
    /\ adapter' = "rate_limit"
    /\ UNCHANGED <<raw, cacheVars, files, downloads, dl, client, session_file>>

NextRateLimit == (\E u \in Users : RateLimit(u)) \/ Seconds

SpecRateLimit == InitAntiSpam /\ [][NextRateLimit]_vars

\* C30: once add_request has returned False for a user at time t, every
\* is_blocked before t + block_duration reports the user blocked, with the
\* seconds that remain, and nothing is added; the first is_blocked from
\* t + block_duration on removes the entry, and the add_request that follows
\* it returns True, the requests of before the block being older than the
\* window.
C30_BlockedThenAdmitted ==
    [][\A u \in Users :
          (RateLimit(u) /\ history[u].rejected_at # <<>>) =>
              LET t == history[u].rejected_at[1]
              IN  /\ clock < t + block_duration =>
                        /\ out'.blocked
                        /\ out'.remaining = t + block_duration - clock
                        /\ ~out'.admitted
                        /\ UNCHANGED <<user_requests, blocked_users>>
                  /\ clock >= t + block_duration =>
                        /\ ~out'.blocked
                        /\ blocked_users[u] # None =>
                              /\ out'.admitted
                              /\ blocked_users'[u] = None
                              /\ user_requests'[u] = <<clock>>
      ]_vars

\* The user refused at time 0 asks again block_duration seconds later, and is
\* admitted.
C30_Witness ==
    \E u \in Users :
        /\ adapter = "rate_limit"
        /\ history[u].rejected_at = <<0>>
        /\ clock = block_duration
        /\ out.admitted
        /\ blocked_users[u] = None
        /\ user_requests[u] = <<clock>>

\* ------------------------------------------------------ the gates of a handler
\* What stands between a user and the work of a handler: check_subscription
\* (src/keyboards.py lines 9-14) and the rate limit. raw.subscribed is what
\* get_chat_member says of the user: a member of the channel or not (an
\* exception of the request counts as not).

\* is_blocked, then add_request when it said no: whether the request is
\* admitted, and the state of AntiSpam after the two.
PassRateLimit(u) ==
    LET b == IsBlockedCall(u)
        r == AddRequestCall(u, b.blocked_users)
    IN  IF b.blocked
        THEN [admitted |-> FALSE, user_requests |-> user_requests,
              blocked_users |-> blocked_users, history |-> history]
        ELSE [admitted |-> r.value, user_requests |-> r.user_requests,
              blocked_users |-> r.blocked_users, history |-> Logged(u, r.value)]

\* process_video_url, lines 472-506, for a message with a valid url: the
\* subscription (lines 474-480), the rate limit (lines 482-490), and then
\* downloader.get_video_info (line 506).
HandleVideoUrl(u) ==
    /\ IF ~raw.subscribed
       THEN /\ out' = [ok |-> TRUE, user |-> u, outcome |-> "subscribe"]
            /\ UNCHANGED <<user_requests, blocked_users, history>>
       ELSE LET g == PassRateLimit(u)
            IN  /\ out' = [ok |-> TRUE, user |-> u,
                           outcome |-> IF g.admitted THEN "resolve" ELSE "rate_limit"]
                /\ user_requests' = g.user_requests
                /\ blocked_users' = g.blocked_users
                /\ history' = g.history
    /\ adapter' = "process_video_url"
    /\ UNCHANGED <<raw, cacheVars, files, downloads, dl, client, session_file>>

\* process_download, lines 589-653, for a button with valid data: the rate
\* limit (lines 594-603), and then the stored file or the new download
\* (lines 614-653). The subscription is not asked for.
HandleDownload(u) ==
    /\ LET g == PassRateLimit(u)
       IN  /\ out' = [ok |-> TRUE, user |-> u,
                      outcome |-> IF g.admitted THEN "download" ELSE "rate_limit"]
           /\ user_requests' = g.user_requests
           /\ blocked_users' = g.blocked_users
           /\ history' = g.history
    /\ adapter' = "process_download"
    /\ UNCHANGED <<raw, cacheVars, files, downloads, dl, client, session_file>>

\* The user joins or leaves the channel.
SubscriptionChanges ==
    /\ raw' = [subscribed |-> ~raw.subscribed]
    /\ UNCHANGED <<adapter, out, cacheVars, appVars>>

InitGate ==
    /\ InitCache
    /\ AppIdle
    /\ raw \in [subscribed : BOOLEAN]
    /\ adapter = "none"
    /\ out = None

NextGate ==
    \/ \E u \in Users : HandleVideoUrl(u)
    \/ \E u \in Users : HandleDownload(u)
    \/ SubscriptionChanges
    \/ Seconds

SpecGate == InitGate /\ [][NextGate]_vars

\* C31: a handler called for a user who is no member of the channel, or who
\* is blocked by the rate limit, begins neither a resolve nor a download; and
\* a request turned down for the subscription leaves the rate limit as it was.
C31_GatedByBothChecks ==
    [][\A u \in Users :
          (HandleVideoUrl(u) \/ HandleDownload(u)) =>
              /\ (~raw.subscribed \/ BlockedNow(u)) =>
                    out'.outcome \notin {"resolve", "download"}
              /\ ~raw.subscribed =>
                    UNCHANGED <<user_requests, blocked_users, history>>
      ]_vars

\* --------------------------------------------- the handler's view of a url
\* src/handlers/user.py lines 28-35 and 151-182. A marker with a path
\* ('vk.com/video') occurs in a url when its domain fragment is followed by
\* its path fragment.

\* str.lower() of the fragments of a url.
LowerUrl(u) ==
    [i \in 1..Len(u) |->
        IF u[i] = "YouTube.com" THEN "youtube.com"
        ELSE IF u[i] = "VK.com" THEN "vk.com"
        ELSE u[i]]

\* 'vk.com/video' in url, 'vk.com/clip' in url
ContainsFollowed(u, domain, path) ==
    \E i \in 1..(Len(u) - 1) : u[i] = domain /\ u[i + 1] = path

\* get_platform, lines 177-182: the first key of SUPPORTED_PLATFORMS, in the
\* order of the dict, that occurs in url.lower().
HandlerGetPlatform(u) ==
    LET l == LowerUrl(u)
    IN  IF ContainsFollowed(l, "vk.com", "/video") THEN "vk"
        ELSE IF ContainsFollowed(l, "vk.com", "/clip") THEN "vk"
        ELSE IF Contains(l, "youtube.com") THEN "youtube"
        ELSE IF Contains(l, "youtu.be") THEN "youtube"
        ELSE IF Contains(l, "instagram.com") THEN "instagram"
        ELSE IF Contains(l, "tiktok.com") THEN "tiktok"
        ELSE NoPlatform

\* re.search(r'https?://[^\s<>"\']+', url).group(0) on a text without
\* spaces: the text from the first scheme on.
MatchedUrl(text) ==
    LET at == CHOOSE i \in 1..Len(text) :
                  text[i] = "https://" /\ \A j \in 1..(i - 1) : text[j] # "https://"
    IN  SubSeq(text, at, Len(text))

\* validate_and_prepare_url, lines 151-174: None, or the url as it was
\* written and its platform.
ValidateAndPrepareUrl(text) ==
    IF ~Contains(text, "https://") THEN None
    ELSE LET u == MatchedUrl(text)
         IN  IF HandlerGetPlatform(u) = NoPlatform THEN None
             ELSE [url |-> u, platform |-> HandlerGetPlatform(u)]

TextFragments ==
    {"https://", "vk.com", "VK.com", "/video", "/clip", "youtube.com", "YouTube.com",
     "youtu.be", "instagram.com", "tiktok.com", "example.com"}

InitAccept ==
    /\ InitCache
    /\ AppIdle
    /\ raw \in UNION {[1..n -> TextFragments] : n \in 0..MaxFragments}
    /\ adapter = "none"
    /\ out = None

\* process_video_url, lines 494-498.
RunValidateAndPrepareUrl ==
    /\ adapter = "none"
    /\ adapter' = "validate_and_prepare_url"
    /\ out' = ValidateAndPrepareUrl(raw)
    /\ UNCHANGED <<raw, cacheVars, appVars>>

\* process_video_url, line 506: downloader.get_video_info(url), which begins
\* with self._get_platform(url) (download_service.py lines 546-548).
RunDownloaderPlatform ==
    /\ adapter = "validate_and_prepare_url"
    /\ out # None
    /\ adapter' = "get_video_info"
    /\ out' = [url |-> out.url, platform |-> out.platform,
               downloader |-> GetPlatform(out.url)]
    /\ UNCHANGED <<raw, cacheVars, appVars>>

NextAccept == RunValidateAndPrepareUrl \/ RunDownloaderPlatform

SpecAccept == InitAccept /\ [][NextAccept]_vars

\* C32: a url that validate_and_prepare_url accepts as of platform P is of
\* platform P for Downloader._get_platform too, and so is never refused as
\* unsupported, whatever the case of its letters.
C32_SamePlatform ==
    adapter = "get_video_info" =>
        /\ out.downloader # NoPlatform
        /\ out.downloader = out.platform

\* ------------------------------------------------------- the rows of files
\* C33: whatever the interleaving of the process_download calls, the table
\* files holds at most one row for a (video_id, quality, file_type).
C33_OneFilePerKey ==
    \A i, j \in 1..Len(files) :
        (/\ files[i].video_id = files[j].video_id
         /\ files[i].quality = files[j].quality
         /\ files[i].type = files[j].type) => i = j

\* C34: a row of files is added only by a call whose download ended with a
\* non-empty file and whose upload returned a message; a row of downloads is
\* added only by that call, after its row of files, and holds the file_id of
\* that row; and a call whose download, file check or upload fails ends
\* without adding either.
C34_RecordsOnlyAfterUpload ==
    [][\A t \in Tasks :
          /\ (dl'[t].pc = "uploading" /\ dl[t].pc # "uploading") =>
                DownloadEnds(t, TRUE)
          /\ (dl'[t].pc = "saving" /\ dl[t].pc # "saving") => UploadEnds(t, TRUE)
          /\ (dl'[t].pc = "recording" /\ dl[t].pc # "recording") =>
                /\ dl[t].pc = "saving"
                /\ files' = Append(files, FileRow(dl'[t].file_id, dl[t].key.video_id,
                                                  dl[t].key.format_id, dl[t].key.file_type))
          /\ (DownloadEnds(t, FALSE) \/ UploadEnds(t, FALSE)) =>
                /\ dl'[t] = Ended("failed")
                /\ files' = files
                /\ downloads' = downloads
          /\ files' # files => \E s \in Tasks : dl[s].pc = "saving" /\ dl'[s].pc = "recording"
          /\ downloads' # downloads =>
                \E s \in Tasks :
                    /\ dl[s].pc = "recording"
                    /\ files' = files
                    /\ downloads' = downloads \cup
                          {[user_id |-> dl[s].user, video_id |-> dl[s].key.video_id,
                            file_id |-> dl[s].file_id]}
                    /\ \E i \in 1..Len(files) :
                          /\ files[i].file_id = dl[s].file_id
                          /\ files[i].video_id = dl[s].key.video_id
                          /\ files[i].quality = dl[s].key.format_id
                          /\ files[i].type = dl[s].key.file_type
      ]_vars

\* One call failed and added nothing, another went through and added its two
\* rows.
C34_Witness ==
    /\ \E t \in Tasks : dl[t] = Ended("failed")
    /\ \E t \in Tasks : dl[t] = Ended("downloaded")
    /\ Len(files) = 1
    /\ \E d \in downloads : d.file_id = files[1].file_id
    /\ Cardinality(downloads) = 1

\* ------------------------------------------- the time of a stored entry
\* C35: for every url the time held in the cache never decreases as calls of
\* get_video_info complete, overlapping calls for the url included: an entry
\* is never replaced by one that carries an earlier time.
C35_TimeNeverDecreases ==
    [][\A u \in CacheUrls :
          (cache[u] # None /\ cache'[u] # None) => cache'[u].time >= cache[u].time
      ]_vars

\* ------------------------------------------------------- send_large_video
\* handlers/user.py, line 37.
MAX_RETRY_ATTEMPTS == 3

\* The locals of a call of send_large_video, and what it has done so far:
\* attempt is the loop variable of line 337, path_sends the number of
\* send_video calls with FSInputFile, buffered_sends those with
\* BufferedInputFile, result what the call ended with.
SendCall(at, attempt, path_sends, buffered_sends, result) ==
    [pc |-> at, attempt |-> attempt, path_sends |-> path_sends,
     buffered_sends |-> buffered_sends, result |-> result]

NoSend == SendCall("idle", 0, 0, 0, "none")

\* What can become of one attempt: open raises, send_video raises, or
\* send_video returns the message.
SendOutcomes == {"open_error", "send_error", "message"}

\* Line 348 read as a test for the attempt after the last one.
LastAttemptOffByOne(attempt) == attempt = MAX_RETRY_ATTEMPTS

\* Line 348: if attempt == MAX_RETRY_ATTEMPTS - 1.
LastAttempt(attempt) == attempt = MAX_RETRY_ATTEMPTS - 1

\* A call is suspended in an await of send_large_video.
SendRunning(t) == out[t].pc \in {"file", "sleeping", "buffered"}

\* Line 337: the call enters the loop with attempt = 0; with an empty range
\* it falls through to line 364.
CallSendLargeVideo(t) ==
    /\ ~SendRunning(t)
    /\ out' = [out EXCEPT ![t] =
                  IF 0 < MAX_RETRY_ATTEMPTS
                  THEN SendCall("file", 0, 0, 0, "none")
                  ELSE SendCall("returned", 0, 0, 0, "None")]
    /\ UNCHANGED <<raw, adapter, cacheVars, appVars>>

\* Lines 338-362, one pass of the loop body up to its await: the file is
\* opened and sent by its path (lines 339-345); a message is returned; any
\* Exception leads to the buffered send when this was the last attempt and to
\* the sleep of line 362 otherwise.
AttemptFile(t, outcome) ==
    /\ out[t].pc = "file"
    /\ LET c == out[t]
           sends == IF outcome = "open_error" THEN c.path_sends
                    ELSE c.path_sends + 1
       IN out' = [out EXCEPT ![t] =
                     IF outcome = "message"
                     THEN SendCall("returned", c.attempt, sends, c.buffered_sends,
                                   "message")
                     ELSE IF LastAttempt(c.attempt)
                     THEN SendCall("buffered", c.attempt, sends, c.buffered_sends,
                                   "none")
                     ELSE SendCall("sleeping", c.attempt, sends, c.buffered_sends,
                                   "none")]
    /\ UNCHANGED <<raw, adapter, cacheVars, appVars>>

\* Lines 349-360: the file is read into a BufferedInputFile and sent once more;
\* any Exception becomes VideoDownloadError.
AttemptBuffered(t, outcome) ==
    /\ out[t].pc = "buffered"
    /\ LET c == out[t]
       IN out' = [out EXCEPT ![t] =
                     IF outcome = "message"
                     THEN SendCall("returned", c.attempt, c.path_sends, 1, "message")
                     ELSE IF outcome = "send_error"
                     THEN SendCall("raised", c.attempt, c.path_sends, 1,
                                   "VideoDownloadError")
                     ELSE SendCall("raised", c.attempt, c.path_sends, 0,
                                   "VideoDownloadError")]
    /\ UNCHANGED <<raw, adapter, cacheVars, appVars>>

\* Line 362 and back to line 337: the sleep ends and the loop takes the next
\* value of range(MAX_RETRY_ATTEMPTS), or ends, and line 364 returns None.
SleepEnds(t) ==
    /\ out[t].pc = "sleeping"
    /\ LET c == out[t]
       IN out' = [out EXCEPT ![t] =
                     IF c.attempt + 1 < MAX_RETRY_ATTEMPTS
                     THEN SendCall("file", c.attempt + 1, c.path_sends,
                                   c.buffered_sends, "none")
                     ELSE SendCall("returned", c.attempt, c.path_sends,
                                   c.buffered_sends, "None")]
    /\ UNCHANGED <<raw, adapter, cacheVars, appVars>>

\* What a suspended call of task t does next.
SendStep(t) ==
    \/ \E outcome \in SendOutcomes : AttemptFile(t, outcome)
    \/ \E outcome \in SendOutcomes : AttemptBuffered(t, outcome)
    \/ SleepEnds(t)

InitSend ==
    /\ InitCache
    /\ AppIdle
    /\ raw = None
    /\ adapter = "send_large_video"
    /\ out = [t \in Tasks |-> NoSend]

NextSend ==
    \/ \E t \in Tasks : CallSendLargeVideo(t)
    \/ \E t \in Tasks, outcome \in SendOutcomes : AttemptFile(t, outcome)
    \/ \E t \in Tasks, outcome \in SendOutcomes : AttemptBuffered(t, outcome)
    \/ \E t \in Tasks : SleepEnds(t)

\* Every request to Telegram ends, by an answer or by the timeout of the
\* session, and every sleep ends: a suspended call is resumed.
SpecSend ==
    InitSend /\ [][NextSend]_vars /\ \A t \in Tasks : WF_vars(SendStep(t))

\* C36: send_large_video always terminates: it sends the file by its path at
\* most MAX_RETRY_ATTEMPTS times, then at most once from a buffer, and ends by
\* returning the message or by raising VideoDownloadError; it never returns
\* None.
C36_SendLargeVideoTerminates ==
    /\ [](\A t \in Tasks :
            /\ out[t].attempt < MAX_RETRY_ATTEMPTS
            /\ out[t].path_sends <= MAX_RETRY_ATTEMPTS
            /\ out[t].buffered_sends <= 1
            /\ (out[t].pc = "buffered" \/ out[t].buffered_sends = 1) =>
                  LastAttempt(out[t].attempt)
            /\ out[t].pc = "returned" => out[t].result = "message"
            /\ out[t].pc = "raised" => out[t].result = "VideoDownloadError"
            /\ out[t].result # "None")
    /\ \A t \in Tasks :
          SendRunning(t) ~> (out[t].pc \in {"returned", "raised"})

\* A call that sent the file by its path MAX_RETRY_ATTEMPTS times without
\* success and then from the buffer, with success.
C36_Witness ==
    \E t \in Tasks :
        /\ out[t].pc = "returned"
        /\ out[t].path_sends = MAX_RETRY_ATTEMPTS
        /\ out[t].buffered_sends = 1

\* ------------------------------------------------------ the admin broadcast
\* The most rows get_all_users returns.
MaxRecipients == 2

\* The updates the admin router acts on: the callback "broadcast", the callback
\* "cancel_broadcast", and a message.
UpdateKinds == {"broadcast", "cancel_broadcast", "message"}

\* An update in the hands of the dispatcher (start_polling handles every update
\* in a task of its own, main.py line 38): raw_state is the FSM state read for
\* the update when it arrived, users the length of the list get_all_users
\* returned, i the position of the loop of line 81 in it.
Update(at, kind, raw_state, users, i, success_count, error_count) ==
    [pc |-> at, kind |-> kind, raw_state |-> raw_state, users |-> users, i |-> i,
     success_count |-> success_count, error_count |-> error_count]

NoUpdate == Update("idle", "none", "None", 0, 0, 0, 0)

\* An update of the admin arrives: its FSM state is read, and AdminFilter
\* awaits get_admin_list (lines 12-14, 19-20).
ReceiveUpdate(t, kind) ==
    /\ out[t].pc = "idle"
    /\ out' = [out EXCEPT ![t] = Update("filter", kind, raw.state, 0, 0, 0, 0)]
    /\ UNCHANGED <<raw, adapter, cacheVars, appVars>>

\* AdminFilter has let the update through and the handler is chosen by its
\* filter: F.data == "broadcast" (line 59), F.data == "cancel_broadcast" (line
\* 117) or the state waiting_for_content (line 72), tested on the state read at
\* arrival. process_broadcast_content and cancel_broadcast begin with
\* state.clear() (lines 74, 119); start_broadcast awaits edit_text first.
RunHandler(t) ==
    /\ out[t].pc = "filter"
    /\ LET c == out[t]
       IN IF c.kind = "broadcast"
          THEN /\ out' = [out EXCEPT ![t].pc = "start_broadcast"]
               /\ raw' = raw
          ELSE IF c.kind = "cancel_broadcast"
          THEN /\ out' = [out EXCEPT ![t] = NoUpdate]
               /\ raw' = [raw EXCEPT !.state = "None"]
          ELSE IF c.raw_state = "waiting_for_content"
          THEN /\ out' = [out EXCEPT ![t].pc = "answer"]
               /\ raw' = [raw EXCEPT !.state = "None"]
          ELSE /\ out' = [out EXCEPT ![t] = NoUpdate]
               /\ raw' = raw
    /\ UNCHANGED <<adapter, cacheVars, appVars>>

\* start_broadcast, lines 61-70: edit_text returns and the state is set, or
\* edit_text raises and it is not.
StartBroadcast(t, ok) ==
    /\ out[t].pc = "start_broadcast"
    /\ out' = [out EXCEPT ![t] = NoUpdate]
    /\ raw' = IF ok THEN [raw EXCEPT !.state = "waiting_for_content"] ELSE raw
    /\ UNCHANGED <<adapter, cacheVars, appVars>>

\* process_broadcast_content, lines 75-79: the status message is sent and
\* get_all_users returns n users; either may raise and end the handler.
LoadUsers(t, ok, n) ==
    /\ out[t].pc = "answer"
    /\ out' = [out EXCEPT ![t] =
                  IF ok THEN Update("deliver", "message", out[t].raw_state, n, 0, 0, 0)
                  ELSE NoUpdate]
    /\ UNCHANGED <<raw, adapter, cacheVars, appVars>>

\* Lines 81-106, one pass of the loop: the message is sent to the next user
\* and success_count grows, or the send raises and error_count grows (lines
\* 104-106); the loop goes on with the next user in both cases.
Deliver(t, ok) ==
    /\ out[t].pc = "deliver"
    /\ out[t].i < out[t].users
    /\ out' = [out EXCEPT ![t] =
                  Update("deliver", "message", out[t].raw_state, out[t].users,
                         out[t].i + 1,
                         IF ok THEN out[t].success_count + 1 ELSE out[t].success_count,
                         IF ok THEN out[t].error_count ELSE out[t].error_count + 1)]
    /\ UNCHANGED <<raw, adapter, cacheVars, appVars>>

\* Lines 108-114: the loop is over and the two counts are reported.
Report(t) ==
    /\ out[t].pc = "deliver"
    /\ out[t].i = out[t].users
    /\ out' = [out EXCEPT ![t].pc = "reported"]
    /\ UNCHANGED <<raw, adapter, cacheVars, appVars>>

\* Line 115: the admin panel is sent and the handler returns.
Return(t) ==
    /\ out[t].pc = "reported"
    /\ out' = [out EXCEPT ![t] = NoUpdate]
    /\ UNCHANGED <<raw, adapter, cacheVars, appVars>>

InitBroadcast ==
    /\ InitCache
    /\ AppIdle
    /\ raw = [state |-> "None"]
    /\ adapter = "admin_router"
    /\ out = [t \in Tasks |-> NoUpdate]

NextBroadcast ==
    \/ \E t \in Tasks, kind \in UpdateKinds : ReceiveUpdate(t, kind)
    \/ \E t \in Tasks : RunHandler(t)
    \/ \E t \in Tasks, ok \in BOOLEAN : StartBroadcast(t, ok)
    \/ \E t \in Tasks, ok \in BOOLEAN, n \in 0..MaxRecipients : LoadUsers(t, ok, n)
    \/ \E t \in Tasks, ok \in BOOLEAN : Deliver(t, ok)
    \/ \E t \in Tasks : Report(t)
    \/ \E t \in Tasks : Return(t)

SpecBroadcast == InitBroadcast /\ [][NextBroadcast]_vars

\* A step in which process_broadcast_content begins for the update of task t.
BroadcastBegins(t) == out[t].pc = "filter" /\ out'[t].pc = "answer"

\* C37: a message of the admin is broadcast only while the FSM state is
\* waiting_for_content, which only start_broadcast sets; the broadcast clears
\* the state before it delivers anything, so that one entry into the state
\* gives at most one broadcast and cancel_broadcast gives none; a delivery
\* that fails does not stop the loop, and at the end success_count +
\* error_count is the number of users.
C37_OneBroadcastPerEntry ==
    [][\A t \in Tasks :
          /\ BroadcastBegins(t) =>
                (raw.state = "waiting_for_content" /\ raw'.state = "None")
          /\ (raw'.state = "waiting_for_content" /\ raw.state # "waiting_for_content")
                => \E s \in Tasks : out[s].pc = "start_broadcast"
          /\ (out'[t].pc = "deliver" /\ out'[t] # out[t]) =>
                \/ out[t].pc = "answer"
                \/ /\ out[t].pc = "deliver"
                   /\ out'[t].i = out[t].i + 1
                   /\ out'[t].success_count + out'[t].error_count = out'[t].i
          /\ out'[t].pc = "reported" =>
                out'[t].success_count + out'[t].error_count = out'[t].users
      ]_vars

====
